---- MODULE Spec2Model ----
(***************************************************************************)
(* Warframe drop analyzer and its Discord front end.                       *)
(*                                                                         *)
(* Four specifications share this module:                                  *)
(*   Spec          the bot's process-wide analyzer, on_ready, /reload and  *)
(*                 the /prime and /mod handlers, cut at their awaits;      *)
(*   SpecVaulted   is_relic_vaulted applied to a relic status;             *)
(*   SpecFilter    the filter-string parse of the handlers followed by     *)
(*                 apply_mission_filters;                                  *)
(*   SpecAggregate aggregate_mission_drops.                                *)
(* Each specification pins the variables of the others to their idle       *)
(* values.                                                                 *)
(***************************************************************************)
EXTENDS Integers, Sequences, FiniteSets, TLC

VARIABLES
    analyzer,       \* discord_bot.py global `analyzer`: [id, soup]
    constructed,    \* number of WarframeDropAnalyzer() constructions so far
    lastGood,       \* history: snapshot of the most recent successful fetch
    queries,        \* the /prime and /mod interactions in flight
    reload_reply,   \* what the last /reload answered
    relic_data,     \* argument of is_relic_vaulted
    vaulted,        \* its return value
    vpc,            \* "input" | "returned"
    filters,        \* the raw `filters` option of /prime and /mod
    filter_list,    \* the parsed exclusion terms
    missions,       \* argument of apply_mission_filters
    filtered,       \* its return value
    refiltered,     \* the return value filtered once more
    fpc,            \* "input" | "parsed" | "filtered" | "refiltered"
    all_farms,      \* argument of aggregate_mission_drops
    aggregated,     \* its return value
    apc,            \* "input" | "aggregated"
    comp_relics,    \* the valid components with their active relics
    relic_farms,    \* find_relic_farm_locations of each active relic
    cfilters,       \* the exclusion terms of the /prime call
    all_farms_list, \* every farm record collected, in collection order
    detailed,       \* mission_components_detailed, in insertion order
    common,         \* the multi-component missions, in insertion order
    presented,      \* the missions listed under "Missions Multi-Composants"
    cpc,            \* "input" | "bot" | "cli"
    lines,          \* the lines of soup.get_text()
    item_name,      \* argument of find_item_in_relics
    found_relics,   \* its return value, in insertion order
    rpc,            \* "input" | "returned"
    corpus,         \* what the loaded snapshot holds for each target name
    targets,        \* the name each interaction in flight asks for
    remembered,     \* an earlier answer: [kind, target, snapshot, outcome]
    between,        \* queries answered since, up to MaxBetween
    layout,         \* the pieces the drop-table text is made of
    text,           \* soup.get_text() / str(soup), one character per element
    wanted,         \* relic_name / mod_name with the function asked: [fn, name]
    locations,      \* the returned list, or "ValueError" when the call raised
    epc,            \* "input" | "returned"
    content,        \* argument of send_long_message, as its lines
    msg_parts,      \* `parts`, built by the splitting loop
    sent,           \* the messages sent so far: [via, part]
    spc,            \* "input" | "sending" | "done"
    interactions    \* the /prime, /mod and /reload interactions and what each was sent

botVars == <<analyzer, constructed, lastGood, queries, reload_reply>>
vaultedVars == <<relic_data, vaulted, vpc>>
filterVars == <<filters, filter_list, missions, filtered, refiltered, fpc>>
aggregateVars == <<all_farms, aggregated, apc>>
correlateVars ==
    <<comp_relics, relic_farms, cfilters, all_farms_list, detailed, common,
      presented, cpc>>
relicVars == <<lines, item_name, found_relics, rpc>>
queryVars == <<corpus, targets, remembered, between>>
extractVars == <<layout, text, wanted, locations, epc>>
sendVars == <<content, msg_parts, sent, spc>>
followVars == <<interactions>>
vars ==
    <<botVars, vaultedVars, filterVars, aggregateVars, correlateVars,
      relicVars, queryVars, extractVars, sendVars, followVars>>

----------------------------------------------------------------------------
(* Bounds.                                                                 *)

MaxLoads == 2
MaxQueries == 1
MaxMentions == 7
MaxMissions == 3
MaxFarms == 3
MaxLocations == 7
MaxBetween == 1

----------------------------------------------------------------------------
(* Idle values.                                                            *)

NoAnalyzer == [id |-> 0, soup |-> 0]

IdleQuery ==
    [pc |-> "idle", kind |-> "none", begin |-> 0, seen |-> {},
     loadedAtCheck |-> FALSE, parsed |-> 0, held |-> "none",
     outcome |-> "none"]

----------------------------------------------------------------------------
(* WarframeDropAnalyzer.is_relic_vaulted                                   *)

VaultedRewardMentions == 4

IsRelicVaultedAtLeast(data) ==
    data.reward_mentions >= VaultedRewardMentions /\ data.drop_mentions = 0

is_relic_vaulted(data) ==
    data.reward_mentions = VaultedRewardMentions /\ data.drop_mentions = 0

VaultedInit ==
    /\ relic_data \in [reward_mentions : 0..MaxMentions,
                       drop_mentions : 0..MaxMentions]
    /\ vaulted = FALSE
    /\ vpc = "input"
    /\ analyzer = NoAnalyzer
    /\ constructed = 0
    /\ lastGood = 0
    /\ queries = [q \in 1..MaxQueries |-> IdleQuery]
    /\ reload_reply = "none"
    /\ filters = <<>>
    /\ filter_list = <<>>
    /\ missions = <<>>
    /\ filtered = <<>>
    /\ refiltered = <<>>
    /\ fpc = "idle"
    /\ all_farms = <<>>
    /\ aggregated = <<>>
    /\ apc = "idle"
    /\ comp_relics = <<>>
    /\ relic_farms = <<>>
    /\ cfilters = <<>>
    /\ all_farms_list = <<>>
    /\ detailed = <<>>
    /\ common = <<>>
    /\ presented = <<>>
    /\ cpc = "idle"
    /\ lines = <<>>
    /\ item_name = <<>>
    /\ found_relics = <<>>
    /\ rpc = "idle"
    /\ corpus = <<>>
    /\ targets = <<>>
    /\ remembered = <<>>
    /\ between = 0
    /\ layout = <<>>
    /\ text = <<>>
    /\ wanted = <<>>
    /\ locations = <<>>
    /\ epc = "idle"
    /\ content = <<>>
    /\ msg_parts = <<>>
    /\ sent = <<>>
    /\ spc = "idle"
    /\ interactions = <<>>

IsRelicVaulted ==
    /\ vpc = "input"
    /\ vaulted' = is_relic_vaulted(relic_data)
    /\ vpc' = "returned"
    /\ UNCHANGED relic_data

VaultedNext ==
    /\ IsRelicVaulted
    /\ UNCHANGED
           <<botVars, filterVars, aggregateVars, correlateVars, relicVars,
             queryVars, extractVars, sendVars, followVars>>

SpecVaulted == VaultedInit /\ [][VaultedNext]_vars

\* C1: is_relic_vaulted returns true exactly for the statuses with
\* reward_mentions = 4 and drop_mentions = 0; every other pair of counts is
\* active.
C1_VaultedIffFourAndZero ==
    vpc = "returned" =>
        /\ vaulted \in BOOLEAN
        /\ (relic_data.reward_mentions = 4 /\ relic_data.drop_mentions = 0)
               => vaulted = TRUE
        /\ (relic_data.reward_mentions # 4 \/ relic_data.drop_mentions # 0)
               => vaulted = FALSE

C1_Witness ==
    /\ vpc = "returned"
    /\ relic_data.reward_mentions = 4
    /\ relic_data.drop_mentions = 0
    /\ vaulted = TRUE

----------------------------------------------------------------------------
(* discord_bot.py: the global analyzer, on_ready, /reload, /prime, /mod.   *)
(*                                                                         *)
(* An analyzer object is [id, soup]: id numbers the construction (0 is the *)
(* module-level None), soup is 0 for None and otherwise names the corpus   *)
(* snapshot the fetch of that object parsed.  fetch_droptables is          *)
(* synchronous, so construction and fetch form one step.  The handlers are *)
(* coroutines: each is cut where it awaits the Discord API, and the code   *)
(* between two awaits is one step.  analyze_single_component,              *)
(* analyze_complete_prime_with_filters and generate_complete_analysis      *)
(* await nothing that suspends, so a whole analysis is one step.           *)

Kinds == {"prime_single", "prime_complete", "mod"}

\* What the corpus holds for the queried name and filters: no mention at
\* all; relics that are all vaulted; an active relic but no mission listing
\* it; missions that the filters all exclude; missions that survive.
Matches == {"none", "vaulted", "no_farms", "all_excluded", "some"}

\* WarframeDropAnalyzer.__init__ followed by fetch_droptables.
NewAnalyzer(n, ok) == [id |-> n, soup |-> IF ok THEN n ELSE 0]

\* A corpus snapshot is loaded in the global analyzer.
Loaded(a) == a.id # 0 /\ a.soup # 0

NotReadyOnlyNone(a) == a.id = 0

\* `not analyzer or not analyzer.soup`
NotReady(a) == a.id = 0 \/ a.soup = 0

\* find_mod_in_missions: its own guard returns [] without a corpus.  A mod
\* has no relics: it is listed by missions or not at all.
FindModInMissions(a, m) ==
    IF a.soup = 0 \/ m \in {"vaulted", "no_farms"} THEN "none" ELSE m

\* find_item_in_relics reads self.soup.get_text(): without a corpus the
\* attribute access on None raises.
FindItemInRelics(a, m) == IF a.soup = 0 THEN "raise" ELSE m

OnReady(ok) ==
    /\ constructed < MaxLoads
    /\ constructed' = constructed + 1
    /\ analyzer' = NewAnalyzer(constructed + 1, ok)
    /\ lastGood' = IF ok THEN constructed + 1 ELSE lastGood
    /\ UNCHANGED <<queries, reload_reply>>

\* A variant that tests the permission after it has reloaded.
ReloadCommandTestsLate(administrator, ok) ==
    /\ constructed < MaxLoads
    /\ constructed' = constructed + 1
    /\ analyzer' = NewAnalyzer(constructed + 1, ok)
    /\ lastGood' = IF ok THEN constructed + 1 ELSE lastGood
    /\ reload_reply' = IF ~administrator THEN "refused"
                       ELSE IF ok THEN "reloaded" ELSE "failed"
    /\ UNCHANGED queries

\* reload_command: without the administrator permission it answers and
\* returns before anything else; otherwise it constructs, fetches and
\* reports.
ReloadCommand(administrator, ok) ==
    IF ~administrator
    THEN /\ reload_reply' = "refused"
         /\ UNCHANGED <<analyzer, constructed, lastGood, queries>>
    ELSE /\ constructed < MaxLoads
         /\ constructed' = constructed + 1
         /\ analyzer' = NewAnalyzer(constructed + 1, ok)
         /\ lastGood' = IF ok THEN constructed + 1 ELSE lastGood
         /\ reload_reply' = IF ok THEN "reloaded" ELSE "failed"
         /\ UNCHANGED queries

\* /prime or /mod is invoked: the handler awaits interaction.response.defer.
Invoke(q, kind) ==
    /\ queries[q].pc = "idle"
    /\ queries' = [queries EXCEPT ![q] =
           [@ EXCEPT !.pc = "deferred", !.kind = kind, !.begin = analyzer.soup]]
    /\ UNCHANGED <<analyzer, constructed, lastGood, reload_reply>>

\* A variant that filters before it tests whether the mod was found.
ModOutcomeFiltersFirst(a, m) ==
    IF NotReady(a) THEN "NotReady"
    ELSE LET found == FindModInMissions(a, m)
         IN  IF found \in {"none", "all_excluded"} THEN "NotFound" ELSE "Found"

\* mod_command from the readiness test to its last send.
ModOutcome(a, m) ==
    IF NotReady(a) THEN "NotReady"
    ELSE LET found == FindModInMissions(a, m)
         IN  CASE found = "none" -> "NotFound"
               [] found = "all_excluded" -> "AllFiltered"
               [] OTHER -> "Found"

\* prime_command on a component name or without a type:
\* analyze_single_component answers "non trouvé dans les reliques", "Toutes
\* les reliques sont vaulted", or the relic counts followed by the Top 10,
\* which is empty when no farm record is left.
PrimeSingleOutcome(a, m) ==
    IF NotReady(a) THEN "NotReady"
    ELSE LET found == FindItemInRelics(a, m)
         IN  CASE found = "raise" -> "Error"
               [] found = "none" -> "NotFound"
               [] found = "vaulted" -> "AllVaulted"
               [] found \in {"no_farms", "all_excluded"} -> "EmptyTop"
               [] OTHER -> "Found"

\* prime_command with a type: analyze_complete_prime_with_filters returns a
\* bare string when no component is found, and the two-target unpacking of
\* it raises into the handler's except clause.
\* Components whose relics are all vaulted are skipped, component_data
\* stays empty and no image follows the text.
PrimeCompleteOutcome(a, m) ==
    IF NotReady(a) THEN "NotReady"
    ELSE LET found == FindItemInRelics(a, m)
         IN  CASE found = "raise" -> "Error"
               [] found = "none" -> "Error"
               [] found = "vaulted" -> "AllVaulted"
               [] found \in {"no_farms", "all_excluded"} -> "EmptyTop"
               [] OTHER -> "Found"

Outcome(kind, a, m) ==
    CASE kind = "mod" -> ModOutcome(a, m)
      [] kind = "prime_single" -> PrimeSingleOutcome(a, m)
      [] OTHER -> PrimeCompleteOutcome(a, m)

\* The handler resumes after defer: readiness test, analysis, first send.
RunQuery(q, m) ==
    /\ queries[q].pc = "deferred"
    /\ LET cur == queries[q]
           out == Outcome(cur.kind, analyzer, m)
           parses == out # "NotReady"
       IN  queries' = [queries EXCEPT ![q] =
               [cur EXCEPT
                  !.pc = IF cur.kind = "prime_complete"
                               /\ out \in {"Found", "EmptyTop"}
                         THEN "sending_text" ELSE "done",
                  !.seen = cur.seen \cup {analyzer.soup},
                  !.loadedAtCheck = Loaded(analyzer),
                  !.parsed = IF parses THEN analyzer.soup ELSE 0,
                  !.held = m,
                  !.outcome = out]]
    /\ UNCHANGED <<analyzer, constructed, lastGood, reload_reply>>

\* send_long_message has returned: send_summary_images runs
\* generate_summary_image, which calls apply_mission_filters and
\* aggregate_mission_drops on the global analyzer as it is now.
SendSummaryImages(q) ==
    /\ queries[q].pc = "sending_text"
    /\ queries' = [queries EXCEPT ![q] =
           [@ EXCEPT !.pc = "done", !.seen = @ \cup {analyzer.soup}]]
    /\ UNCHANGED <<analyzer, constructed, lastGood, reload_reply>>

BotNext ==
    /\ \/ \E ok \in BOOLEAN : OnReady(ok)
       \/ \E adm \in BOOLEAN, ok \in BOOLEAN : ReloadCommand(adm, ok)
       \/ \E q \in 1..MaxQueries, kind \in Kinds : Invoke(q, kind)
       \/ \E q \in 1..MaxQueries, m \in Matches : RunQuery(q, m)
       \/ \E q \in 1..MaxQueries : SendSummaryImages(q)
    /\ UNCHANGED
           <<vaultedVars, filterVars, aggregateVars, correlateVars, relicVars,
             queryVars, extractVars, sendVars, followVars>>

BotInit ==
    /\ analyzer = NoAnalyzer
    /\ constructed = 0
    /\ lastGood = 0
    /\ queries = [q \in 1..MaxQueries |-> IdleQuery]
    /\ reload_reply = "none"
    /\ relic_data = [reward_mentions |-> 0, drop_mentions |-> 0]
    /\ vaulted = FALSE
    /\ vpc = "idle"
    /\ filters = <<>>
    /\ filter_list = <<>>
    /\ missions = <<>>
    /\ filtered = <<>>
    /\ refiltered = <<>>
    /\ fpc = "idle"
    /\ all_farms = <<>>
    /\ aggregated = <<>>
    /\ apc = "idle"
    /\ comp_relics = <<>>
    /\ relic_farms = <<>>
    /\ cfilters = <<>>
    /\ all_farms_list = <<>>
    /\ detailed = <<>>
    /\ common = <<>>
    /\ presented = <<>>
    /\ cpc = "idle"
    /\ lines = <<>>
    /\ item_name = <<>>
    /\ found_relics = <<>>
    /\ rpc = "idle"
    /\ corpus = <<>>
    /\ targets = <<>>
    /\ remembered = <<>>
    /\ between = 0
    /\ layout = <<>>
    /\ text = <<>>
    /\ wanted = <<>>
    /\ locations = <<>>
    /\ epc = "idle"
    /\ content = <<>>
    /\ msg_parts = <<>>
    /\ sent = <<>>
    /\ spc = "idle"
    /\ interactions = <<>>

Spec == BotInit /\ [][BotNext]_vars

\* C2: a /prime or /mod query whose readiness test runs while no corpus
\* snapshot is loaded reports "not ready", parses nothing, and its outcome is
\* not the "not found" outcome.
C2_NotReadyWithoutSnapshot ==
    \A q \in 1..MaxQueries :
        (queries[q].pc \notin {"idle", "deferred"} /\ ~queries[q].loadedAtCheck)
            => /\ queries[q].outcome = "NotReady"
               /\ queries[q].outcome # "NotFound"
               /\ queries[q].parsed = 0
               /\ queries[q].pc = "done"

C2_Witness ==
    \E q \in 1..MaxQueries :
        /\ queries[q].pc = "done"
        /\ queries[q].kind = "mod"
        /\ queries[q].outcome = "NotReady"
        /\ analyzer.id # 0
        /\ analyzer.soup = 0

\* C3: once a fetch has succeeded, the snapshot queries are served from is
\* the one of the last successful fetch, whatever failed fetches followed.
C3_FailedReloadKeepsSnapshot ==
    lastGood # 0 => (Loaded(analyzer) /\ analyzer.soup = lastGood)

\* C4: a query that began while snapshot S was loaded dereferences, in each
\* of its steps, an analyzer holding S.
C4_QueryUsesOnlyItsSnapshot ==
    \A q \in 1..MaxQueries :
        queries[q].begin # 0 => queries[q].seen \subseteq {queries[q].begin}

\* The query of slot q has run its analysis on a loaded corpus.
Answered(q) ==
    /\ queries[q].pc \in {"sending_text", "done"}
    /\ queries[q].loadedAtCheck

\* What a query of this kind answers, on a loaded corpus, for a name the
\* corpus holds m for.
AnswerOnLoaded(kind, m) == Outcome(kind, NewAnalyzer(1, TRUE), m)

\* C16: on each query path (/mod, /prime on a component, /prime on a
\* complete item) the answer to a query whose matches were all removed by
\* the filters differs from the answer the same path gives for a name with
\* no match at all, and conversely.
C16_AllFilteredIsNotNotFound ==
    \A q \in 1..MaxQueries :
        Answered(q) =>
            /\ queries[q].held = "all_excluded" =>
                   /\ queries[q].outcome # AnswerOnLoaded(queries[q].kind, "none")
                   /\ queries[q].outcome # "NotFound"
            /\ queries[q].held = "none" =>
                   /\ queries[q].outcome
                          # AnswerOnLoaded(queries[q].kind, "all_excluded")
                   /\ queries[q].outcome # "AllFiltered"

C16_Witness ==
    \E q \in 1..MaxQueries :
        /\ Answered(q)
        /\ queries[q].pc = "done"
        /\ queries[q].kind = "mod"
        /\ queries[q].held = "all_excluded"
        /\ queries[q].outcome = "AllFiltered"
        /\ AnswerOnLoaded("mod", "none") = "NotFound"

\* C17: on every path a name with no match at all is answered with the
\* not-found result, not through the handler's exception clause.
C17_NoMatchIsNotFound ==
    \A q \in 1..MaxQueries :
        (Answered(q) /\ queries[q].held = "none")
            => /\ queries[q].outcome = "NotFound"
               /\ queries[q].outcome # "Error"

\* C18: a /reload that is refused changes neither the analyzer nor the
\* number of constructions and fetches nor any query, and a /reload that
\* replaces the analyzer is an administrator's.
C18_RefusedReloadChangesNothing ==
    [][ /\ (reload_reply' = "refused" /\ reload_reply # "refused")
            => /\ analyzer' = analyzer
               /\ constructed' = constructed
               /\ lastGood' = lastGood
               /\ queries' = queries
        /\ (reload_reply' # reload_reply /\ analyzer' # analyzer)
            => reload_reply' \in {"reloaded", "failed"} ]_vars

C18_Witness ==
    /\ reload_reply = "refused"
    /\ Loaded(analyzer)
    /\ constructed = 1
    /\ lastGood = 1

----------------------------------------------------------------------------
(* Strings.  A Python str is a sequence of one-character strings, so that  *)
(* split, strip, lower and the substring test `in` are computed.           *)

Upper ==
    <<"A","B","C","D","E","F","G","H","I","J","K","L","M",
      "N","O","P","Q","R","S","T","U","V","W","X","Y","Z">>

LowerLetters ==
    <<"a","b","c","d","e","f","g","h","i","j","k","l","m",
      "n","o","p","q","r","s","t","u","v","w","x","y","z">>

LowerMap ==
    [c \in {Upper[i] : i \in DOMAIN Upper} |->
        LowerLetters[CHOOSE i \in DOMAIN Upper : Upper[i] = c]]

\* str.lower
Lower(s) ==
    [i \in 1..Len(s) |-> IF s[i] \in DOMAIN LowerMap THEN LowerMap[s[i]] ELSE s[i]]

\* `sub in s`
Contains(sub, s) ==
    \E i \in 0..(Len(s) - Len(sub)) : SubSeq(s, i + 1, i + Len(sub)) = sub

RECURSIVE LStrip(_)
LStrip(s) == IF s # <<>> /\ Head(s) = " " THEN LStrip(Tail(s)) ELSE s

RECURSIVE RStrip(_)
RStrip(s) ==
    IF s # <<>> /\ s[Len(s)] = " " THEN RStrip(SubSeq(s, 1, Len(s) - 1)) ELSE s

\* str.strip
Strip(s) == RStrip(LStrip(s))

RECURSIVE SplitFrom(_, _)
SplitFrom(s, cur) ==
    IF s = <<>> THEN <<cur>>
    ELSE IF Head(s) = "," THEN <<cur>> \o SplitFrom(Tail(s), <<>>)
    ELSE SplitFrom(Tail(s), Append(cur, Head(s)))

\* str.split(',')
SplitComma(s) == SplitFrom(s, <<>>)

\* prime_command / mod_command: filter_list = [] ; if filters:
\*     filter_list = [f.strip() for f in filters.split(',')]
\* The empty sequence stands for both None and "".
ParseFilterOption(opt) ==
    IF opt = <<>> THEN <<>>
    ELSE LET parts == SplitComma(opt)
         IN  [i \in 1..Len(parts) |-> Strip(parts[i])]

----------------------------------------------------------------------------
(* apply_mission_filters(missions, filters).  Its body is not among the    *)
(* sources; it is modelled from the Mission Filter contract: a record is   *)
(* excluded iff any term occurs, case-insensitively, in its mission name,  *)
(* planet name or mission type; survivors keep their order.                *)

TermInRecord(f, m) ==
    \/ Contains(Lower(f), Lower(m.mission))
    \/ Contains(Lower(f), Lower(m.planet))
    \/ Contains(Lower(f), Lower(m.type))

ExcludedCaseSensitive(m, terms) ==
    \E i \in 1..Len(terms) :
        \/ Contains(terms[i], m.mission)
        \/ Contains(terms[i], m.planet)
        \/ Contains(terms[i], m.type)

ExcludedByAll(m, terms) ==
    \A i \in 1..Len(terms) : TermInRecord(terms[i], m)

Excluded(m, terms) ==
    \E i \in 1..Len(terms) : TermInRecord(terms[i], m)

\* The loop that removes from the list it iterates over: the record after a
\* removed one is skipped.
RECURSIVE RemoveWhileIterating(_, _, _)
RemoveWhileIterating(ms, i, terms) ==
    IF i > Len(ms) THEN ms
    ELSE IF Excluded(ms[i], terms)
         THEN RemoveWhileIterating(
                  SubSeq(ms, 1, i - 1) \o SubSeq(ms, i + 1, Len(ms)), i + 1, terms)
         ELSE RemoveWhileIterating(ms, i + 1, terms)

SkippingFilter(ms, terms) == RemoveWhileIterating(ms, 1, terms)

\* The loop that appends a record once for every term that does not match.
RECURSIVE AppendPerTerm(_, _)
AppendPerTerm(ms, terms) ==
    IF ms = <<>> THEN <<>>
    ELSE LET m == Head(ms)
             misses == SelectSeq(terms, LAMBDA f : ~TermInRecord(f, m))
         IN  (IF Excluded(m, terms) THEN <<>>
              ELSE IF terms = <<>> THEN <<m>>
              ELSE [i \in 1..Len(misses) |-> m])
             \o AppendPerTerm(Tail(ms), terms)

apply_mission_filters(ms, terms) ==
    SelectSeq(ms, LAMBDA m : ~Excluded(m, terms))

\* A percentage as printed in the document, two decimals: h hundredths of a
\* percent.  A rate is [units, frac]: units hundredths of a percent plus the
\* fraction 0.frac of one hundredth, frac being base-Scale digits, most
\* significant first, without trailing zeros.
Percent(h) == [units |-> h, frac |-> <<>>]

\* Records as find_mod_in_missions emits them.
Mission(planet, mission, type, rotation, rarity, rate) ==
    [planet |-> planet, mission |-> mission, type |-> type,
     rotation |-> rotation, rarity |-> rarity, drop_rate |-> Percent(rate)]

Lua == <<"L","u","a">>
Void == <<"V","o","i","d">>
Earth == <<"E","a","r","t","h">>
Pavlov == <<"P","a","v","l","o","v">>
Ani == <<"A","n","i">>
Mantle == <<"M","a","n","t","l","e">>
TypeSpy == <<"S","p","y">>
TypeSpyLower == <<"s","p","y">>
TypeSpyUpper == <<"S","P","Y">>
TypeSurvival == <<"S","u","r","v","i","v","a","l">>
TypeCapture == <<"C","a","p","t","u","r","e">>

MissionPool ==
    { Mission(Lua, Pavlov, TypeSpy, "Rot. A", "Rare", 1000),
      Mission(Lua, Pavlov, TypeSpyLower, "Rot. B", "Uncommon", 2000),
      Mission(Void, Ani, TypeSpyUpper, "Rot. C", "Rare", 500),
      Mission(Void, Ani, TypeSurvival, "Rot. A", "Common", 2000),
      Mission(Earth, Mantle, TypeCapture, "Rot. A", "Uncommon", 1111) }

\* The `filters` option as typed by the user.
FilterOptions ==
    { <<>>,
      <<"S","p","y">>,
      <<"s","p","y",",","V","o","i","d">>,
      <<" ","a","n","i"," ",",","P","Y">>,
      <<"S","p","y",","," ">>,
      <<"D","u","v","i","r","i">>,
      <<"l","u","a",","," ","D","u","v","i","r","i">> }

SeqsUpTo(S, n) == UNION {[1..k -> S] : k \in 0..n}

FilterInit ==
    /\ filters \in FilterOptions
    /\ missions \in SeqsUpTo(MissionPool, MaxMissions)
    /\ filter_list = <<>>
    /\ filtered = <<>>
    /\ refiltered = <<>>
    /\ fpc = "input"
    /\ analyzer = NoAnalyzer
    /\ constructed = 0
    /\ lastGood = 0
    /\ queries = [q \in 1..MaxQueries |-> IdleQuery]
    /\ reload_reply = "none"
    /\ relic_data = [reward_mentions |-> 0, drop_mentions |-> 0]
    /\ vaulted = FALSE
    /\ vpc = "idle"
    /\ all_farms = <<>>
    /\ aggregated = <<>>
    /\ apc = "idle"
    /\ comp_relics = <<>>
    /\ relic_farms = <<>>
    /\ cfilters = <<>>
    /\ all_farms_list = <<>>
    /\ detailed = <<>>
    /\ common = <<>>
    /\ presented = <<>>
    /\ cpc = "idle"
    /\ lines = <<>>
    /\ item_name = <<>>
    /\ found_relics = <<>>
    /\ rpc = "idle"
    /\ corpus = <<>>
    /\ targets = <<>>
    /\ remembered = <<>>
    /\ between = 0
    /\ layout = <<>>
    /\ text = <<>>
    /\ wanted = <<>>
    /\ locations = <<>>
    /\ epc = "idle"
    /\ content = <<>>
    /\ msg_parts = <<>>
    /\ sent = <<>>
    /\ spc = "idle"
    /\ interactions = <<>>

ParseFilters ==
    /\ fpc = "input"
    /\ filter_list' = ParseFilterOption(filters)
    /\ fpc' = "parsed"
    /\ UNCHANGED <<filters, missions, filtered, refiltered>>

ApplyMissionFilters ==
    /\ fpc = "parsed"
    /\ filtered' = apply_mission_filters(missions, filter_list)
    /\ fpc' = "filtered"
    /\ UNCHANGED <<filters, filter_list, missions, refiltered>>

ReapplyMissionFilters ==
    /\ fpc = "filtered"
    /\ refiltered' = apply_mission_filters(filtered, filter_list)
    /\ fpc' = "refiltered"
    /\ UNCHANGED <<filters, filter_list, missions, filtered>>

FilterNext ==
    /\ \/ ParseFilters
       \/ ApplyMissionFilters
       \/ ReapplyMissionFilters
    /\ UNCHANGED
           <<botVars, vaultedVars, aggregateVars, correlateVars, relicVars,
             queryVars, extractVars, sendVars, followVars>>

SpecFilter == FilterInit /\ [][FilterNext]_vars

\* The two letters are the same up to case.
SameLetter(a, b) ==
    \/ a = b
    \/ \E i \in DOMAIN Upper :
           {a, b} = {Upper[i], LowerLetters[i]}

\* Term t occurs in s at some offset, letter by letter, ignoring case.
OccursIgnoringCase(t, s) ==
    \E k \in 0..(Len(s) - Len(t)) :
        \A j \in 1..Len(t) : SameLetter(t[j], s[k + j])

MatchesSomeTerm(m, terms) ==
    \E i \in 1..Len(terms) :
        \/ OccursIgnoringCase(terms[i], m.mission)
        \/ OccursIgnoringCase(terms[i], m.planet)
        \/ OccursIgnoringCase(terms[i], m.type)

Occurrences(seq, x) == Cardinality({i \in 1..Len(seq) : seq[i] = x})

\* C5: a record is removed iff some exclusion term occurs, ignoring case, in
\* its mission name, planet name or mission type; with the term "Spy" no
\* record of type "Spy", "spy" or "SPY" survives; a record matching no term
\* survives, as often as it occurs in the input.
C5_RemovedIffSomeTermOccurs ==
    fpc \in {"filtered", "refiltered"} =>
        /\ \A i \in 1..Len(missions) :
               LET m == missions[i]
               IN  IF MatchesSomeTerm(m, filter_list)
                   THEN Occurrences(filtered, m) = 0
                   ELSE Occurrences(filtered, m) = Occurrences(missions, m)
        /\ (\E t \in 1..Len(filter_list) : filter_list[t] = <<"S","p","y">>)
               => \A j \in 1..Len(filtered) :
                      filtered[j].type \notin
                          {<<"S","p","y">>, <<"s","p","y">>, <<"S","P","Y">>}

C5_Witness ==
    /\ fpc = "filtered"
    /\ filter_list = << <<"S","p","y">> >>
    /\ \E i, j, k \in 1..Len(missions) :
           /\ missions[i].type = <<"s","p","y">>
           /\ missions[j].type = <<"S","P","Y">>
           /\ missions[k].type = <<"C","a","p","t","u","r","e">>
    /\ Len(filtered) = 1

\* C6: with an empty exclusion list the filter returns its input: the same
\* records, as many, in the same order.
C6_EmptyListIsIdentity ==
    (fpc \in {"filtered", "refiltered"} /\ filter_list = <<>>)
        => filtered = missions

C6_Witness ==
    /\ fpc = "filtered"
    /\ filter_list = <<>>
    /\ Len(missions) = MaxMissions
    /\ filtered = missions
    /\ missions[1] # missions[2]

\* C7: filtering the filtered list again with the same terms returns it
\* unchanged.
C7_FilterIdempotent ==
    fpc = "refiltered" => refiltered = filtered

C7_Witness ==
    /\ fpc = "refiltered"
    /\ Len(filtered) > 0
    /\ Len(filtered) < Len(missions)
    /\ refiltered = filtered

\* a is b with some elements left out.
RECURSIVE IsSubsequence(_, _)
IsSubsequence(a, b) ==
    IF a = <<>> THEN TRUE
    ELSE IF b = <<>> THEN FALSE
    ELSE IF Head(a) = Head(b) THEN IsSubsequence(Tail(a), Tail(b))
    ELSE IsSubsequence(a, Tail(b))

\* C8: the output is a subsequence of the input: survivors keep their
\* relative order, none is duplicated, none has a field changed.
C8_OutputIsSubsequence ==
    fpc \in {"filtered", "refiltered"} =>
        /\ IsSubsequence(filtered, missions)
        /\ \A m \in MissionPool : Occurrences(filtered, m) <= Occurrences(missions, m)

C8_Witness ==
    /\ fpc = "filtered"
    /\ Len(missions) = MaxMissions
    /\ Len(filtered) = 2
    /\ filtered[1] # filtered[2]
    /\ filtered[1] = missions[1]
    /\ filtered[2] = missions[MaxMissions]

----------------------------------------------------------------------------
(* aggregate_mission_drops(farms).  Its body is not among the sources; it  *)
(* is modelled from the Mission Aggregator contract: records are grouped   *)
(* by (mission, planet, rotation) in first-seen order, a group of one is   *)
(* re-emitted, a larger group becomes one record carrying the members'     *)
(* sources and the independent union 1 - PRODUCT(1 - p_i) of their rates.  *)
(* Rates are exact: a product of n complements is an integer over Scale^n, *)
(* held as little-endian base-Scale digits.                                *)

Scale == 100 * 100

\* digits * m + carry, one digit longer.
RECURSIVE MulSmall(_, _, _)
MulSmall(digits, m, carry) ==
    IF digits = <<>> THEN <<carry>>
    ELSE LET t == Head(digits) * m + carry
         IN  <<t % Scale>> \o MulSmall(Tail(digits), m, t \div Scale)

\* a - b - borrow for digit strings of equal length, a >= b.
RECURSIVE SubDigits(_, _, _)
SubDigits(a, b, borrow) ==
    IF a = <<>> THEN <<>>
    ELSE LET d == Head(a) - Head(b) - borrow
         IN  <<IF d < 0 THEN d + Scale ELSE d>>
             \o SubDigits(Tail(a), Tail(b), IF d < 0 THEN 1 ELSE 0)

\* PRODUCT(Scale - p_i) over the rates ps, as Len(ps) + 1 digits.
RECURSIVE MissProduct(_)
MissProduct(ps) ==
    IF ps = <<>> THEN <<1>>
    ELSE MulSmall(MissProduct(SubSeq(ps, 1, Len(ps) - 1)), Scale - ps[Len(ps)], 0)

RECURSIVE DropTrailingZeros(_)
DropTrailingZeros(ds) ==
    IF ds # <<>> /\ ds[Len(ds)] = 0
    THEN DropTrailingZeros(SubSeq(ds, 1, Len(ds) - 1))
    ELSE ds

\* The rate whose numerator over Scale^n is the n + 1 little-endian digits c.
RateOfDigits(c, n) ==
    [units |-> c[n] + Scale * c[n + 1],
     frac |-> DropTrailingZeros([i \in 1..(n - 1) |-> c[n - i]])]

\* The members' rates added up.
SumRates(ps) ==
    LET RECURSIVE Sum(_)
        Sum(xs) == IF xs = <<>> THEN 0 ELSE Head(xs) + Sum(Tail(xs))
    IN  Percent(Sum(ps))

\* 1 - PRODUCT(1 - p_i), ps in hundredths of a percent.
CombineRates(ps) ==
    LET n == Len(ps)
        one == [i \in 1..(n + 1) |-> IF i = n + 1 THEN 1 ELSE 0]
    IN  RateOfDigits(SubDigits(one, MissProduct(ps), 0), n)

GroupKeyWithRelic(r) == <<r.mission, r.planet, r.rotation, r.relic>>

GroupKey(r) == <<r.mission, r.planet, r.rotation>>

\* The group keys of farms in first-seen order.
RECURSIVE FirstSeenKeys(_, _)
FirstSeenKeys(farms, seen) ==
    IF farms = <<>> THEN <<>>
    ELSE LET k == GroupKey(Head(farms))
         IN  IF k \in seen THEN FirstSeenKeys(Tail(farms), seen)
             ELSE <<k>> \o FirstSeenKeys(Tail(farms), seen \cup {k})

Members(farms, k) == SelectSeq(farms, LAMBDA r : GroupKey(r) = k)

\* A variant that wraps the source of a lone record in a list of one.
AggregateGroupAlwaysList(ms) ==
    LET first == ms[1]
    IN  [mission |-> first.mission, planet |-> first.planet,
         type |-> first.type, rotation |-> first.rotation,
         rarity |-> first.rarity,
         relic |-> first.relic,
         relics |-> [i \in 1..Len(ms) |-> ms[i].relic],
         item_rarity |-> first.item_rarity,
         item_rarities |-> [i \in 1..Len(ms) |-> ms[i].item_rarity],
         drop_rate |->
             CombineRates([i \in 1..Len(ms) |-> ms[i].drop_rate.units])]

\* A variant that collects each source once and lists the newest first.
AggregateGroupNewestFirst(ms) ==
    LET first == ms[1]
        many == Len(ms) >= 2
        n == Len(ms)
    IN  [mission |-> first.mission, planet |-> first.planet,
         type |-> first.type, rotation |-> first.rotation,
         rarity |-> first.rarity,
         relic |-> first.relic,
         relics |-> IF many THEN [i \in 1..n |-> ms[n + 1 - i].relic] ELSE <<>>,
         item_rarity |-> first.item_rarity,
         item_rarities |-> IF many THEN <<first.item_rarity>> ELSE <<>>,
         drop_rate |->
             IF many THEN CombineRates([i \in 1..n |-> ms[i].drop_rate.units])
             ELSE first.drop_rate]

\* One output record per group: the first-seen member's fields, the
\* members' sources and item rarities as aligned lists when there are two
\* or more (`relics` is absent, here <<>>, on a group of one).
AggregateGroup(ms) ==
    LET first == ms[1]
        many == Len(ms) >= 2
    IN  [mission |-> first.mission, planet |-> first.planet,
         type |-> first.type, rotation |-> first.rotation,
         rarity |-> first.rarity,
         relic |-> first.relic,
         relics |-> IF many THEN [i \in 1..Len(ms) |-> ms[i].relic] ELSE <<>>,
         item_rarity |-> first.item_rarity,
         item_rarities |->
             IF many THEN [i \in 1..Len(ms) |-> ms[i].item_rarity] ELSE <<>>,
         drop_rate |->
             IF many THEN CombineRates([i \in 1..Len(ms) |-> ms[i].drop_rate.units])
             ELSE first.drop_rate]

aggregate_mission_drops(farms) ==
    LET keys == FirstSeenKeys(farms, {})
    IN  [i \in 1..Len(keys) |-> AggregateGroup(Members(farms, keys[i]))]

\* Records as analyze_single_component hands them to the aggregator:
\* find_relic_farm_locations' fields plus relic and item_rarity.
Farm(planet, mission, type, rotation, rarity, rate, relic, item_rarity) ==
    [planet |-> planet, mission |-> mission, type |-> type,
     rotation |-> rotation, rarity |-> rarity, drop_rate |-> Percent(rate),
     relic |-> relic, item_rarity |-> item_rarity]

FarmPool ==
    { Farm(Lua, Pavlov, TypeSpy, "A", "Uncommon", 2000, "Lith A1", "Unknown"),
      Farm(Lua, Pavlov, TypeSpy, "A", "Rare", 1000, "Meso B2", "Unknown"),
      Farm(Void, Ani, TypeSurvival, "A", "Uncommon", 1429, "Axi A1", "Unknown"),
      Farm(Void, Ani, TypeSurvival, "A", "Uncommon", 1111, "Neo N3", "Unknown"),
      Farm(Void, Ani, TypeSurvival, "B", "Uncommon", 1111, "Axi A1", "Unknown"),
      Farm(Lua, Ani, TypeSurvival, "Reward", "Common", 2000, "Lith A1", "Unknown") }

AggregateInit ==
    /\ all_farms \in SeqsUpTo(FarmPool, MaxFarms)
    /\ aggregated = <<>>
    /\ apc = "input"
    /\ analyzer = NoAnalyzer
    /\ constructed = 0
    /\ lastGood = 0
    /\ queries = [q \in 1..MaxQueries |-> IdleQuery]
    /\ reload_reply = "none"
    /\ relic_data = [reward_mentions |-> 0, drop_mentions |-> 0]
    /\ vaulted = FALSE
    /\ vpc = "idle"
    /\ filters = <<>>
    /\ filter_list = <<>>
    /\ missions = <<>>
    /\ filtered = <<>>
    /\ refiltered = <<>>
    /\ fpc = "idle"
    /\ comp_relics = <<>>
    /\ relic_farms = <<>>
    /\ cfilters = <<>>
    /\ all_farms_list = <<>>
    /\ detailed = <<>>
    /\ common = <<>>
    /\ presented = <<>>
    /\ cpc = "idle"
    /\ lines = <<>>
    /\ item_name = <<>>
    /\ found_relics = <<>>
    /\ rpc = "idle"
    /\ corpus = <<>>
    /\ targets = <<>>
    /\ remembered = <<>>
    /\ between = 0
    /\ layout = <<>>
    /\ text = <<>>
    /\ wanted = <<>>
    /\ locations = <<>>
    /\ epc = "idle"
    /\ content = <<>>
    /\ msg_parts = <<>>
    /\ sent = <<>>
    /\ spc = "idle"
    /\ interactions = <<>>

AggregateMissionDrops ==
    /\ apc = "input"
    /\ aggregated' = aggregate_mission_drops(all_farms)
    /\ apc' = "aggregated"
    /\ UNCHANGED all_farms

AggregateNext ==
    /\ AggregateMissionDrops
    /\ UNCHANGED
           <<botVars, vaultedVars, filterVars, correlateVars, relicVars,
             queryVars, extractVars, sendVars, followVars>>

SpecAggregate == AggregateInit /\ [][AggregateNext]_vars

Triple(r) == <<r.mission, r.planet, r.rotation>>

\* C9: the output holds exactly one record for each (mission, planet,
\* rotation) triple of the input and none for any other triple.
C9_OneRecordPerTriple ==
    apc = "aggregated" =>
        /\ {Triple(aggregated[i]) : i \in 1..Len(aggregated)}
               = {Triple(all_farms[i]) : i \in 1..Len(all_farms)}
        /\ \A i, j \in 1..Len(aggregated) :
               Triple(aggregated[i]) = Triple(aggregated[j]) => i = j

C9_Witness ==
    /\ apc = "aggregated"
    /\ Len(all_farms) = 3
    /\ Len(aggregated) = 2
    /\ \E i, j \in 1..3 :
           /\ i # j
           /\ Triple(all_farms[i]) = Triple(all_farms[j])
           /\ all_farms[i].relic # all_farms[j].relic

\* The rates of the input records with the triple of output record r, in
\* input order.
MemberRates(r) ==
    LET ms == SelectSeq(all_farms, LAMBDA f : Triple(f) = Triple(r))
    IN  [i \in 1..Len(ms) |-> ms[i].drop_rate.units]

\* The union built one member at a time: u := u + p * (1 - u), with u a
\* numerator over Scale^k held as k + 1 little-endian digits.
RECURSIVE AddAt(_, _, _)
AddAt(digits, pos, x) ==
    IF digits = <<>> THEN <<>>
    ELSE IF pos > 1 THEN <<Head(digits)>> \o AddAt(Tail(digits), pos - 1, x)
    ELSE LET t == Head(digits) + x
         IN  <<t % Scale>> \o AddAt(Tail(digits), 1, t \div Scale)

RECURSIVE UnionDigits(_)
UnionDigits(ps) ==
    IF Len(ps) = 1 THEN <<ps[1] % Scale, ps[1] \div Scale>>
    ELSE LET k == Len(ps) - 1
             p == ps[Len(ps)]
             u == UnionDigits(SubSeq(ps, 1, k))
             scaled == MulSmall(SubSeq(u, 1, k), Scale - p, 0)
             \* u * (Scale - p): the top digit of u is 1 only when u = 1.
             kept == IF u[k + 1] = 1
                     THEN [i \in 1..(k + 2) |->
                              IF i = k + 1 THEN Scale - p ELSE 0]
                     ELSE scaled \o <<0>>
             fixed == IF kept[k + 1] >= Scale
                      THEN [kept EXCEPT ![k + 1] = @ - Scale, ![k + 2] = 1]
                      ELSE kept
         IN  AddAt(fixed, k + 1, p)

UnionByAccumulation(ps) == RateOfDigits(UnionDigits(ps), Len(ps))

\* A rate rounded to two decimals of a percent, as `:.2f` prints it.
Round2(rate) ==
    rate.units + (IF rate.frac # <<>> /\ 2 * rate.frac[1] >= Scale THEN 1 ELSE 0)

\* The statement of C10 but for its last figure.
C10_UnionExceptExample ==
    apc = "aggregated" =>
        \A i \in 1..Len(aggregated) :
            LET r == aggregated[i]
                ps == MemberRates(r)
            IN  Len(ps) >= 2 =>
                    /\ r.drop_rate = UnionByAccumulation(ps)
                    /\ Len(ps) = 2 =>
                           /\ Len(r.drop_rate.frac) <= 1
                           /\ r.drop_rate.units * Scale
                                + (IF r.drop_rate.frac = <<>> THEN 0
                                   ELSE r.drop_rate.frac[1])
                                = Scale * (ps[1] + ps[2]) - ps[1] * ps[2]
                           /\ r.drop_rate # SumRates(ps)
                    /\ (\A j \in 1..Len(ps) : ps[j] > 0)
                           => r.drop_rate.units < SumRates(ps).units
                    /\ ps \in {<<2000, 1000>>, <<1000, 2000>>}
                           => r.drop_rate = Percent(2800)

GroupMembers(r) == SelectSeq(all_farms, LAMBDA f : Triple(f) = Triple(r))

\* The mission fields and the probability of output record r are those of
\* input record m.
SameMissionAndRate(r, m) ==
    /\ r.mission = m.mission
    /\ r.planet = m.planet
    /\ r.type = m.type
    /\ r.rotation = m.rotation
    /\ r.rarity = m.rarity
    /\ r.drop_rate = m.drop_rate
    /\ r.relic = m.relic
    /\ r.item_rarity = m.item_rarity

C12_SourcesInFirstSeenOrder ==
    apc = "aggregated" =>
        \A i \in 1..Len(aggregated) :
            LET r == aggregated[i]
                ms == GroupMembers(r)
            IN  Len(ms) >= 2 =>
                    /\ Len(r.relics) = Len(ms)
                    /\ Len(r.item_rarities) = Len(r.relics)
                    /\ \A j \in 1..Len(ms) :
                           /\ r.relics[j] = ms[j].relic
                           /\ r.item_rarities[j] = ms[j].item_rarity

C12_Witness ==
    /\ apc = "aggregated"
    /\ Len(all_farms) = 3
    /\ all_farms[1].relic = "Meso B2"
    /\ all_farms[3].relic = "Lith A1"
    /\ Triple(all_farms[1]) = Triple(all_farms[3])
    /\ Triple(all_farms[1]) # Triple(all_farms[2])
    /\ aggregated[1].relics = <<"Meso B2", "Lith A1">>
    /\ Len(aggregated[1].item_rarities) = 2

-----------------------------------------------------------------------------
(* The multi-component correlator of /prime on a complete item              *)
(* (analyze_complete_prime_with_filters, generate_complete_analysis) and of *)
(* the command-line analyze_complete_prime.  A dict is a sequence of        *)
(* [key, value] entries in insertion order.                                 *)

TopMultiComponent == 5

Parts == <<"Chassis Blueprint", "Systems Blueprint">>
RelicNames == <<"Lith A1", "Meso B2", "Axi A1">>
RelicSet == {RelicNames[i] : i \in 1..Len(RelicNames)}
Rotations == <<"A", "B", "C">>

Nodes ==
    << [planet |-> Lua, mission |-> Pavlov, type |-> TypeSpy],
       [planet |-> Void, mission |-> Ani, type |-> TypeSurvival],
       [planet |-> Earth, mission |-> Mantle, type |-> TypeCapture] >>

RelicRate(relic) ==
    CASE relic = "Lith A1" -> 1429
      [] relic = "Meso B2" -> 2000
      [] OTHER -> 1111

\* The i-th mission/rotation block of the drop tables, as
\* find_relic_farm_locations reports it for a relic.
Location(relic, i) ==
    LET node == Nodes[((i - 1) % Len(Nodes)) + 1]
        rotation == Rotations[((i - 1) \div Len(Nodes)) + 1]
    IN  Mission(node.planet, node.mission, node.type, rotation, "Uncommon",
                RelicRate(relic))

LocationsOf(relic, from, to) ==
    [i \in 1..(IF to >= from THEN to - from + 1 ELSE 0) |->
        Location(relic, from + i - 1)]

\* The runs of blocks a relic is listed in: none, the first, all but the
\* last, all, or the last three.
Spans ==
    {<<1, n>> : n \in {0, 1, MaxLocations - 1, MaxLocations}}
        \cup {<<MaxLocations - 2, MaxLocations>>}

\* The components in type_patterns order, each with the relics it is found
\* in, in find_item_in_relics order.
ComponentRelics(owners) ==
    [c \in 1..Len(Parts) |->
        [component |-> Parts[c],
         relics |-> SelectSeq(RelicNames, LAMBDA r : Parts[c] \in owners[r])]]

DictHas(d, k) == \E i \in 1..Len(d) : d[i].key = k

\* defaultdict(list)[k].append(v)
DictAppend(d, k, v) ==
    IF DictHas(d, k)
    THEN [i \in 1..Len(d) |->
             IF d[i].key = k
             THEN [key |-> k, value |-> Append(d[i].value, v)]
             ELSE d[i]]
    ELSE Append(d, [key |-> k, value |-> <<v>>])

FarmsOfRelic(rf, comp, relic) ==
    [i \in 1..Len(rf[relic]) |->
        [mission |-> rf[relic][i].mission, planet |-> rf[relic][i].planet,
         type |-> rf[relic][i].type, rotation |-> rf[relic][i].rotation,
         rarity |-> rf[relic][i].rarity, drop_rate |-> rf[relic][i].drop_rate,
         relic |-> relic, component |-> comp, item_rarity |-> "Unknown"]]

RECURSIVE FarmsOfRelics(_, _, _)
FarmsOfRelics(rf, comp, relics) ==
    IF relics = <<>> THEN <<>>
    ELSE FarmsOfRelic(rf, comp, Head(relics))
             \o FarmsOfRelics(rf, comp, Tail(relics))

\* all_farms_list: components without an active relic are skipped.
RECURSIVE FarmsOfComponents(_, _)
FarmsOfComponents(rf, crs) ==
    IF crs = <<>> THEN <<>>
    ELSE FarmsOfRelics(rf, Head(crs).component, Head(crs).relics)
             \o FarmsOfComponents(rf, Tail(crs))

MissionKey(farm) ==
    farm.mission \o <<"|">> \o farm.planet \o <<"|", farm.rotation>>

Detail(farm) ==
    [component |-> farm.component, relic |-> farm.relic,
     drop_rate |-> farm.drop_rate, item_rarity |-> farm.item_rarity,
     mission |-> farm.mission, planet |-> farm.planet, type |-> farm.type,
     rotation |-> farm.rotation]

RECURSIVE MissionComponentsDetailed(_, _)
MissionComponentsDetailed(d, farms) ==
    IF farms = <<>> THEN d
    ELSE MissionComponentsDetailed(
             DictAppend(d, MissionKey(Head(farms)), Detail(Head(farms))),
             Tail(farms))

TestMission(detail) ==
    [mission |-> detail.mission, planet |-> detail.planet,
     type |-> detail.type, rotation |-> detail.rotation]

FilteredDetailed(d, terms) ==
    SelectSeq(d, LAMBDA e :
        /\ e.value # <<>>
        /\ Len(apply_mission_filters(<<TestMission(e.value[1])>>, terms)) > 0)

RECURSIVE MissionCompsSimple(_, _)
MissionCompsSimple(d, farms) ==
    IF farms = <<>> THEN d
    ELSE MissionCompsSimple(
             DictAppend(d, MissionKey(Head(farms)), Head(farms).component),
             Tail(farms))

\* A variant that keeps every mission with a contribution.
SeveralOrOne(v) == Len(v) > 0

\* len(v) > 1
Several(v) == Len(v) > 1

SimpleDetails(e) ==
    [key |-> e.key,
     value |-> [i \in 1..Len(e.value) |->
                   [component |-> e.value[i], relic |-> "", drop_rate |-> 0]]]

Common(d, farms, terms) ==
    IF d # <<>>
    THEN SelectSeq(FilteredDetailed(d, terms), LAMBDA e : Several(e.value))
    ELSE LET simple ==
                 SelectSeq(
                     MissionCompsSimple(<<>>,
                         IF terms # <<>> THEN apply_mission_filters(farms, terms)
                         ELSE farms),
                     LAMBDA e : Several(e.value))
         IN  [i \in 1..Len(simple) |-> SimpleDetails(simple[i])]

MaxOf(S) == CHOOSE x \in S : \A y \in S : y <= x

\* sorted(..., key=len, reverse=True): entries of equal length keep their
\* order.
RECURSIVE SortedByLenDescending(_)
SortedByLenDescending(d) ==
    IF d = <<>> THEN <<>>
    ELSE LET m == MaxOf({Len(d[i].value) : i \in 1..Len(d)})
         IN  SelectSeq(d, LAMBDA e : Len(e.value) = m)
                 \o SortedByLenDescending(SelectSeq(d, LAMBDA e : Len(e.value) # m))

FirstN(s, n) == SubSeq(s, 1, IF Len(s) < n THEN Len(s) ELSE n)

\* A variant that cuts the list before ordering it.
TruncateThenSort(d) == SortedByLenDescending(FirstN(d, TopMultiComponent))

\* sorted(common.items(), key=lambda x: len(x[1]), reverse=True)[:5]
Presented(d) == FirstN(SortedByLenDescending(d), TopMultiComponent)

\* farms.sort(key=lambda x: x['drop_rate'], reverse=True)
RECURSIVE SortedByRateDescending(_)
SortedByRateDescending(farms) ==
    IF farms = <<>> THEN <<>>
    ELSE LET m == MaxOf({farms[i].drop_rate.units : i \in 1..Len(farms)})
         IN  SelectSeq(farms, LAMBDA f : f.drop_rate.units = m)
                 \o SortedByRateDescending(
                        SelectSeq(farms, LAMBDA f : f.drop_rate.units # m))

\* all_farms_by_component, flattened in iteration order: each component's
\* farms sorted by rate.
RECURSIVE CliFarmsOfComponents(_, _)
CliFarmsOfComponents(rf, crs) ==
    IF crs = <<>> THEN <<>>
    ELSE SortedByRateDescending(
             FarmsOfRelics(rf, Head(crs).component, Head(crs).relics))
             \o CliFarmsOfComponents(rf, Tail(crs))

CliMissionKey(farm) ==
    farm.mission \o <<" ", "(">> \o farm.planet \o <<")", " ", "-", " ">>
        \o farm.type \o <<" ", "R", "o", "t", ".", farm.rotation>>

CliDetail(farm) ==
    [component |-> farm.component, drop_rate |-> farm.drop_rate,
     relic |-> farm.relic]

RECURSIVE CliMissionComponents(_, _)
CliMissionComponents(d, farms) ==
    IF farms = <<>> THEN d
    ELSE CliMissionComponents(
             DictAppend(d, CliMissionKey(Head(farms)), CliDetail(Head(farms))),
             Tail(farms))

CorrelateInit ==
    /\ \E owners \in [RelicSet -> (SUBSET {Parts[c] : c \in 1..Len(Parts)}) \ {{}}] :
           comp_relics = ComponentRelics(owners)
    /\ \E span \in [RelicSet -> Spans] :
           relic_farms = [r \in RelicSet |-> LocationsOf(r, span[r][1], span[r][2])]
    /\ cfilters \in {<<>>, <<TypeSpyLower>>}
    /\ all_farms_list = <<>>
    /\ detailed = <<>>
    /\ common = <<>>
    /\ presented = <<>>
    /\ cpc = "input"
    /\ analyzer = NoAnalyzer
    /\ constructed = 0
    /\ lastGood = 0
    /\ queries = [q \in 1..MaxQueries |-> IdleQuery]
    /\ reload_reply = "none"
    /\ relic_data = [reward_mentions |-> 0, drop_mentions |-> 0]
    /\ vaulted = FALSE
    /\ vpc = "idle"
    /\ filters = <<>>
    /\ filter_list = <<>>
    /\ missions = <<>>
    /\ filtered = <<>>
    /\ refiltered = <<>>
    /\ fpc = "idle"
    /\ all_farms = <<>>
    /\ aggregated = <<>>
    /\ apc = "idle"
    /\ lines = <<>>
    /\ item_name = <<>>
    /\ found_relics = <<>>
    /\ rpc = "idle"
    /\ corpus = <<>>
    /\ targets = <<>>
    /\ remembered = <<>>
    /\ between = 0
    /\ layout = <<>>
    /\ text = <<>>
    /\ wanted = <<>>
    /\ locations = <<>>
    /\ epc = "idle"
    /\ content = <<>>
    /\ msg_parts = <<>>
    /\ sent = <<>>
    /\ spc = "idle"
    /\ interactions = <<>>

\* analyze_complete_prime_with_filters from its collection loop to the end
\* of generate_complete_analysis: there is no suspension point in between.
AnalyzeCompletePrimeWithFilters ==
    /\ cpc = "input"
    /\ LET farms == FarmsOfComponents(relic_farms, comp_relics)
           d == MissionComponentsDetailed(<<>>, farms)
           c == Common(d, farms, cfilters)
       IN  /\ all_farms_list' = farms
           /\ detailed' = d
           /\ common' = c
           /\ presented' = Presented(c)
    /\ cpc' = "bot"
    /\ UNCHANGED <<comp_relics, relic_farms, cfilters>>

\* The summary of the command-line analyze_complete_prime, which takes no
\* filters and lists every multi-component mission.
AnalyzeCompletePrime ==
    /\ cpc = "input"
    /\ LET farms == CliFarmsOfComponents(relic_farms, comp_relics)
           d == CliMissionComponents(<<>>, farms)
           c == SelectSeq(d, LAMBDA e : Several(e.value))
       IN  /\ all_farms_list' = farms
           /\ detailed' = d
           /\ common' = c
           /\ presented' = SortedByLenDescending(c)
    /\ cpc' = "cli"
    /\ UNCHANGED <<comp_relics, relic_farms, cfilters>>

CorrelateNext ==
    /\ \/ AnalyzeCompletePrimeWithFilters
       \/ AnalyzeCompletePrime
    /\ UNCHANGED
           <<botVars, vaultedVars, filterVars, aggregateVars, relicVars,
             queryVars, extractVars, sendVars, followVars>>

SpecCorrelate == CorrelateInit /\ [][CorrelateNext]_vars

\* C13: after a query the correlator's result holds no mission key whose
\* contribution list has fewer than 2 entries, whether it was built from
\* the detailed contributions or by the fallback from the farm list, and
\* every mission presented is one of the result.
C13_NoKeyWithFewerThanTwo ==
    /\ cpc \in {"bot", "cli"} =>
           /\ \A i \in 1..Len(common) : Len(common[i].value) >= 2
           /\ \A i \in 1..Len(presented) :
                  /\ Len(presented[i].value) >= 2
                  /\ \E j \in 1..Len(common) : common[j] = presented[i]
    /\ \A terms \in {<<>>, <<TypeSpyLower>>} :
           LET fallback == Common(<<>>, all_farms_list, terms)
           IN  \A i \in 1..Len(fallback) : Len(fallback[i].value) >= 2

C13_Witness ==
    /\ cpc = "bot"
    /\ Len(common) >= 1
    /\ \E i \in 1..Len(detailed) :
           /\ Len(detailed[i].value) = 1
           /\ \A j \in 1..Len(common) : common[j].key # detailed[i].key
    /\ Len(Common(<<>>, all_farms_list, cfilters)) >= 1
    /\ \E i \in 1..Len(all_farms_list) :
           \A j \in 1..Len(all_farms_list) :
               MissionKey(all_farms_list[j]) = MissionKey(all_farms_list[i])
                   => j = i

\* The distinct components of a contribution list.
ComponentsOf(v) == {v[i].component : i \in 1..Len(v)}

\* C14: every mission key the correlator reports offers two or more
\* distinct components; a mission/rotation where one component is
\* obtainable through two relics is not reported.
C14_TwoDistinctComponents ==
    cpc \in {"bot", "cli"} =>
        \A i \in 1..Len(presented) :
            Cardinality(ComponentsOf(presented[i].value)) >= 2

\* The position of key k in dict d.
PositionOf(d, k) == CHOOSE i \in 1..Len(d) : d[i].key = k

\* C15: the missions are presented by non-increasing contribution-list
\* length, missions of equal length in the order they were first seen; at
\* most 5 are presented (all of them on the command line), and no omitted
\* mission has more contributions than a presented one.
C15_PresentedByLengthDescending ==
    cpc \in {"bot", "cli"} =>
        /\ \A i, j \in 1..Len(presented) :
               i < j =>
                   /\ Len(presented[i].value) >= Len(presented[j].value)
                   /\ Len(presented[i].value) = Len(presented[j].value)
                          => PositionOf(common, presented[i].key)
                                 < PositionOf(common, presented[j].key)
        /\ \A i \in 1..Len(presented) : DictHas(common, presented[i].key)
        /\ Len(presented) =
               (IF cpc = "bot" /\ Len(common) > TopMultiComponent
                THEN TopMultiComponent ELSE Len(common))
        /\ \A i \in 1..Len(common) :
               ~DictHas(presented, common[i].key) =>
                   \A j \in 1..Len(presented) :
                       Len(common[i].value) <= Len(presented[j].value)

C15_Witness ==
    /\ cpc = "bot"
    /\ Len(common) > TopMultiComponent
    /\ Len(presented) = TopMultiComponent
    /\ Len(presented[1].value) = 3
    /\ Len(presented[TopMultiComponent].value) = 2
    /\ Len(presented[2].value) = 3
    /\ PositionOf(common, presented[2].key) > TopMultiComponent

-----------------------------------------------------------------------------
(* WarframeDropAnalyzer.find_item_in_relics.  The text is a sequence of     *)
(* lines, a line a sequence of characters; the regular expressions are      *)
(* matched character by character.                                          *)

Space == {" ", "\t"}
Digits == {"0", "1", "2", "3", "4", "5", "6", "7", "8", "9"}
UpperSet == {Upper[i] : i \in DOMAIN Upper}

TierNames == {<<"L","i","t","h">>, <<"M","e","s","o">>, <<"N","e","o">>, <<"A","x","i">>}

RefinementMarks ==
    {<<"(","I","n","t","a","c","t",")">>,
     <<"(","E","x","c","e","p","t","i","o","n","a","l",")">>,
     <<"(","F","l","a","w","l","e","s","s",")">>,
     <<"(","R","a","d","i","a","n","t",")">>}

RelicWord == <<"R","e","l","i","c">>

\* The first index from i on whose character is not in S.
RECURSIVE SkipWhile(_, _, _)
SkipWhile(line, i, S) ==
    IF i <= Len(line) /\ line[i] \in S THEN SkipWhile(line, i + 1, S) ELSE i

LiteralAt(line, i, lit) ==
    /\ i + Len(lit) - 1 <= Len(line)
    /\ SubSeq(line, i, i + Len(lit) - 1) = lit

\* (Lith|Meso|Neo|Axi)\s+([A-Z]\d+)\s+Relic\s+\((Intact|...|Radiant)\)
\* matched at position p: the relic name "<tier> <code>", or <<>>.
RelicHeaderAt(line, p) ==
    LET tiers == {t \in TierNames : LiteralAt(line, p, t)}
    IN  IF tiers = {} THEN <<>>
        ELSE LET tier == CHOOSE t \in tiers : TRUE
                 a == p + Len(tier)
                 b == SkipWhile(line, a, Space)
                 c == SkipWhile(line, b + 1, Digits)
                 d == SkipWhile(line, c, Space)
                 e == d + Len(RelicWord)
                 f == SkipWhile(line, e, Space)
             IN  IF /\ b > a
                    /\ b <= Len(line)
                    /\ line[b] \in UpperSet
                    /\ c > b + 1
                    /\ d > c
                    /\ LiteralAt(line, d, RelicWord)
                    /\ f > e
                    /\ \E mark \in RefinementMarks : LiteralAt(line, f, mark)
                 THEN tier \o <<" ">> \o SubSeq(line, b, c - 1)
                 ELSE <<>>

\* re.search: the leftmost match, or <<>>.
RECURSIVE RelicHeaderFrom(_, _)
RelicHeaderFrom(line, p) ==
    IF p > Len(line) THEN <<>>
    ELSE IF RelicHeaderAt(line, p) # <<>> THEN RelicHeaderAt(line, p)
    ELSE RelicHeaderFrom(line, p + 1)

RelicMatch(line) == RelicHeaderFrom(line, 1)

HasRefinementMark(line) == \E mark \in RefinementMarks : Contains(mark, line)

\* A variant that counts every line with the relic's name and a percentage.
IsDropLineAnyPercent(relic_name, line) ==
    /\ Contains(relic_name \o <<" ">> \o RelicWord, line)
    /\ Contains(<<"%">>, line)

\* search_pattern in line and '%' in line and not re.search(r'\((Intact|
\* Exceptional|Flawless|Radiant)\)', line)
IsDropLine(relic_name, line) ==
    /\ Contains(relic_name \o <<" ">> \o RelicWord, line)
    /\ Contains(<<"%">>, line)
    /\ ~HasRefinementMark(line)

\* First pass: relic_data[relic_name]['reward_mentions'] += 1 for each line
\* holding the item name and a relic header.
RECURSIVE RewardMentions(_, _, _)
RewardMentions(d, ls, item) ==
    IF ls = <<>> THEN d
    ELSE LET line == Head(ls)
             name == IF Contains(item, line) THEN RelicMatch(line) ELSE <<>>
         IN  RewardMentions(
                 IF name = <<>> THEN d
                 ELSE IF \E i \in 1..Len(d) : d[i].relic = name
                 THEN [i \in 1..Len(d) |->
                          IF d[i].relic = name
                          THEN [d[i] EXCEPT !.reward_mentions = @ + 1]
                          ELSE d[i]]
                 ELSE Append(d, [relic |-> name, reward_mentions |-> 1,
                                 drop_mentions |-> 0]),
                 Tail(ls), item)

\* Second pass: the number of drop lines of a relic.
DropMentions(relic_name, ls) ==
    Len(SelectSeq(ls, LAMBDA line : IsDropLine(relic_name, line)))

find_item_in_relics(ls, item) ==
    LET first == RewardMentions(<<>>, ls, item)
    IN  [i \in 1..Len(first) |->
            [first[i] EXCEPT !.drop_mentions = DropMentions(first[i].relic, ls)]]

\* The texts the lines below are made of.
LithA1 == <<"L","i","t","h"," ","A","1">>
MesoB2 == <<"M","e","s","o"," ","B","2">>
LithA10 == <<"L","i","t","h"," ","A","1","0">>
AshPrimeSystems ==
    <<"A","s","h"," ","P","r","i","m","e"," ","S","y","s","t","e","m","s">>
FormaBlueprint ==
    <<"F","o","r","m","a"," ","B","l","u","e","p","r","i","n","t">>
RewardIntact ==
    <<" ","R","e","l","i","c"," ","(","I","n","t","a","c","t",")"," ">>
RewardExceptional ==
    <<" ","R","e","l","i","c"," ","(","E","x","c","e","p","t","i","o","n",
      "a","l",")"," ">>
RewardFlawless ==
    <<" ","R","e","l","i","c"," ","(","F","l","a","w","l","e","s","s",")",
      " ">>
RewardRadiant ==
    <<" ","R","e","l","i","c"," ","(","R","a","d","i","a","n","t",")"," ">>
UncommonChance ==
    <<" ","U","n","c","o","m","m","o","n"," ","(","1","1",".","0","0","%",
      ")">>
RareChance == <<" ","R","a","r","e"," ","(","2",".","0","0","%",")">>
DropUncommon ==
    <<" ","R","e","l","i","c","U","n","c","o","m","m","o","n"," ","(","1",
      "4",".","2","9","%",")">>
DropRare ==
    <<" ","R","e","l","i","c","R","a","r","e"," ","(","5",".","0","0","%",
      ")">>
BareRelic == <<" ","R","e","l","i","c">>

\* The lines of a drop-table text, in document order: the four reward
\* tables of Lith A1 with the item, a reward table of Lith A1 with another
\* item, a mission's drop line for Lith A1, a mention of Lith A1 without a
\* percentage, a reward table of Meso B2 with the item, drop lines for
\* Meso B2 and for Lith A10, and the item's name alone.
DocumentLines ==
    << LithA1 \o RewardIntact \o AshPrimeSystems \o UncommonChance,
       LithA1 \o RewardExceptional \o AshPrimeSystems \o UncommonChance,
       LithA1 \o RewardFlawless \o AshPrimeSystems \o UncommonChance,
       LithA1 \o RewardRadiant \o AshPrimeSystems \o UncommonChance,
       LithA1 \o RewardIntact \o FormaBlueprint \o UncommonChance,
       LithA1 \o DropUncommon,
       LithA1 \o BareRelic,
       MesoB2 \o RewardIntact \o AshPrimeSystems \o RareChance,
       MesoB2 \o DropRare,
       LithA10 \o DropRare,
       AshPrimeSystems >>

\* text.split('\n') of a document holding the lines numbered in `kept`.
LinesOf(kept) ==
    LET F[i \in 0..Len(DocumentLines)] ==
            IF i = 0 THEN <<>>
            ELSE IF i \in kept THEN Append(F[i - 1], DocumentLines[i])
            ELSE F[i - 1]
    IN  F[Len(DocumentLines)]

RelicInit ==
    /\ \E kept \in SUBSET (1..Len(DocumentLines)) : lines = LinesOf(kept)
    /\ item_name \in {AshPrimeSystems, FormaBlueprint}
    /\ found_relics = <<>>
    /\ rpc = "input"
    /\ analyzer = NoAnalyzer
    /\ constructed = 0
    /\ lastGood = 0
    /\ queries = [q \in 1..MaxQueries |-> IdleQuery]
    /\ reload_reply = "none"
    /\ relic_data = [reward_mentions |-> 0, drop_mentions |-> 0]
    /\ vaulted = FALSE
    /\ vpc = "idle"
    /\ filters = <<>>
    /\ filter_list = <<>>
    /\ missions = <<>>
    /\ filtered = <<>>
    /\ refiltered = <<>>
    /\ fpc = "idle"
    /\ all_farms = <<>>
    /\ aggregated = <<>>
    /\ apc = "idle"
    /\ comp_relics = <<>>
    /\ relic_farms = <<>>
    /\ cfilters = <<>>
    /\ all_farms_list = <<>>
    /\ detailed = <<>>
    /\ common = <<>>
    /\ presented = <<>>
    /\ cpc = "idle"
    /\ corpus = <<>>
    /\ targets = <<>>
    /\ remembered = <<>>
    /\ between = 0
    /\ layout = <<>>
    /\ text = <<>>
    /\ wanted = <<>>
    /\ locations = <<>>
    /\ epc = "idle"
    /\ content = <<>>
    /\ msg_parts = <<>>
    /\ sent = <<>>
    /\ spc = "idle"
    /\ interactions = <<>>

FindItemInRelicsCall ==
    /\ rpc = "input"
    /\ found_relics' = find_item_in_relics(lines, item_name)
    /\ rpc' = "returned"
    /\ UNCHANGED <<lines, item_name>>

RelicNext ==
    /\ FindItemInRelicsCall
    /\ UNCHANGED
           <<botVars, vaultedVars, filterVars, aggregateVars, correlateVars,
             queryVars, extractVars, sendVars, followVars>>

SpecRelics == RelicInit /\ [][RelicNext]_vars

\* Line n of the document is in the text.
InText(n) == \E i \in 1..Len(lines) : lines[i] = DocumentLines[n]

\* C19: on a text whose only relic block for the item is Lith A1's, with 4
\* reward-table lines naming the item and no live-drop line for the relic,
\* find_item_in_relics returns exactly one entry, with reward_mentions 4
\* and drop_mentions 0, and is_relic_vaulted is true of it; if the relic is
\* also on a live-drop line, the entry is active.
C19_FourRewardLinesNoDropIsVaulted ==
    (/\ rpc = "returned"
     /\ item_name = AshPrimeSystems
     /\ \A n \in 1..4 : InText(n)
     /\ ~InText(8))
        => /\ Len(found_relics) = 1
           /\ found_relics[1].relic = LithA1
           /\ found_relics[1].reward_mentions = 4
           /\ ~InText(6) =>
                  /\ found_relics[1].drop_mentions = 0
                  /\ is_relic_vaulted(found_relics[1])
           /\ InText(6) =>
                  /\ found_relics[1].drop_mentions >= 1
                  /\ ~is_relic_vaulted(found_relics[1])

C19_Witness ==
    /\ rpc = "returned"
    /\ item_name = AshPrimeSystems
    /\ Len(lines) = 9
    /\ ~InText(6)
    /\ ~InText(8)
    /\ found_relics =
           <<[relic |-> LithA1, reward_mentions |-> 4, drop_mentions |-> 0]>>
    /\ is_relic_vaulted(found_relics[1])

-----------------------------------------------------------------------------
(* Queries on one loaded snapshot: /prime and /mod interactions, possibly   *)
(* for different names, run one after another or interleaved at their       *)
(* awaits, with the corpus content fixed by the snapshot.  `remembered`     *)
(* keeps one earlier answer to compare later ones with.                     *)

Targets == {"Ash Prime", "Gauss Prime"}

NoAnswer == [kind |-> "none", target |-> "none", snapshot |-> 0, outcome |-> "none"]

QueryInit ==
    /\ analyzer = NewAnalyzer(1, TRUE)
    /\ constructed = 1
    /\ lastGood = 1
    /\ queries = [q \in 1..MaxQueries |-> IdleQuery]
    /\ reload_reply = "none"
    /\ corpus \in [Targets -> Matches]
    /\ targets = [q \in 1..MaxQueries |-> "none"]
    /\ remembered = NoAnswer
    /\ between = 0
    /\ relic_data = [reward_mentions |-> 0, drop_mentions |-> 0]
    /\ vaulted = FALSE
    /\ vpc = "idle"
    /\ filters = <<>>
    /\ filter_list = <<>>
    /\ missions = <<>>
    /\ filtered = <<>>
    /\ refiltered = <<>>
    /\ fpc = "idle"
    /\ all_farms = <<>>
    /\ aggregated = <<>>
    /\ apc = "idle"
    /\ comp_relics = <<>>
    /\ relic_farms = <<>>
    /\ cfilters = <<>>
    /\ all_farms_list = <<>>
    /\ detailed = <<>>
    /\ common = <<>>
    /\ presented = <<>>
    /\ cpc = "idle"
    /\ lines = <<>>
    /\ item_name = <<>>
    /\ found_relics = <<>>
    /\ rpc = "idle"
    /\ layout = <<>>
    /\ text = <<>>
    /\ wanted = <<>>
    /\ locations = <<>>
    /\ epc = "idle"
    /\ content = <<>>
    /\ msg_parts = <<>>
    /\ sent = <<>>
    /\ spc = "idle"
    /\ interactions = <<>>

QueryInvoke(q, kind, t) ==
    /\ Invoke(q, kind)
    /\ targets' = [targets EXCEPT ![q] = t]
    /\ UNCHANGED <<corpus, remembered, between>>

\* A variant whose analysis removes what it matched from the parsed tree.
QueryRunConsuming(q) ==
    /\ RunQuery(q, corpus[targets[q]])
    /\ corpus' = [corpus EXCEPT ![targets[q]] = "none"]
    /\ UNCHANGED <<targets, remembered, between>>

\* The analysis reads self.soup (get_text, str) and builds its records
\* anew at each call; it assigns neither the analyzer nor its soup.
QueryRun(q) ==
    /\ RunQuery(q, corpus[targets[q]])
    /\ UNCHANGED <<corpus, targets, remembered, between>>

QueryImages(q) ==
    /\ SendSummaryImages(q)
    /\ UNCHANGED <<corpus, targets, remembered, between>>

\* The handler returns.  Its answer may be kept for comparison.
QueryReturn(q, keep) ==
    /\ queries[q].pc = "done"
    /\ queries' = [queries EXCEPT ![q] = IdleQuery]
    /\ targets' = [targets EXCEPT ![q] = "none"]
    /\ IF keep /\ remembered = NoAnswer
       THEN /\ remembered' = [kind |-> queries[q].kind, target |-> targets[q],
                              snapshot |-> queries[q].parsed,
                              outcome |-> queries[q].outcome]
            /\ between' = 0
       ELSE /\ remembered' = remembered
            /\ between' = IF remembered # NoAnswer /\ between < MaxBetween
                          THEN between + 1 ELSE between
    /\ UNCHANGED <<analyzer, constructed, lastGood, reload_reply, corpus>>

QueryNext ==
    /\ \/ \E q \in 1..MaxQueries, kind \in Kinds, t \in Targets :
              QueryInvoke(q, kind, t)
       \/ \E q \in 1..MaxQueries : QueryRun(q)
       \/ \E q \in 1..MaxQueries : QueryImages(q)
       \/ \E q \in 1..MaxQueries, keep \in BOOLEAN : QueryReturn(q, keep)
    /\ UNCHANGED
           <<vaultedVars, filterVars, aggregateVars, correlateVars, relicVars,
             extractVars, sendVars, followVars>>

SpecQueries == QueryInit /\ [][QueryNext]_vars

\* The query of slot q repeats the remembered one on the same snapshot.
RepeatsRemembered(q) ==
    /\ Answered(q)
    /\ remembered # NoAnswer
    /\ queries[q].kind = remembered.kind
    /\ targets[q] = remembered.target
    /\ queries[q].parsed = remembered.snapshot

Whitespace == {" ", "\t", "\n"}

\* The first index from i on whose character is in S, or Len(s) + 1.
RECURSIVE SkipUntil(_, _, _)
SkipUntil(s, i, S) ==
    IF i <= Len(s) /\ s[i] \notin S THEN SkipUntil(s, i + 1, S) ELSE i

RECURSIVE LastOutside(_, _, _)
LastOutside(s, i, S) ==
    IF i >= 1 /\ s[i] \in S THEN LastOutside(s, i - 1, S) ELSE i

\* str.strip()
StripWs(s) ==
    LET a == SkipWhile(s, 1, Whitespace)
    IN  IF a > Len(s) THEN <<>>
        ELSE SubSeq(s, a, LastOutside(s, Len(s), Whitespace))

\* Python's 0-based list[i].
At(list, i) == list[i + 1]

NoHeader ==
    [at |-> 0, planet |-> <<>>, mission |-> <<>>, type |-> <<>>, next |-> 0]

\* mission_pattern = ([^/\n]+)/([^\(\n]+)\s*\(([^\)]+)\) tried at position
\* p.  The first group runs to the first "/" or newline and needs the "/";
\* the second runs to the first "(" or newline, the \s* may then cross
\* newlines to reach the "("; the third runs to the first ")", newlines
\* included.  Each group is greedy and cannot be shortened into a match.
MissionHeaderAt(s, p) ==
    LET a == SkipUntil(s, p, {"/", "\n"})
        b == SkipUntil(s, a + 1, {"(", "\n"})
        c == SkipWhile(s, b, Whitespace)
        d == SkipUntil(s, c + 1, {")"})
    IN  IF /\ a > p
           /\ a <= Len(s)
           /\ s[a] = "/"
           /\ b > a + 1
           /\ c <= Len(s)
           /\ s[c] = "("
           /\ d > c + 1
           /\ d <= Len(s)
        THEN [at |-> p,
              planet |-> SubSeq(s, p, a - 1),
              mission |-> SubSeq(s, a + 1, b - 1),
              type |-> SubSeq(s, c + 1, d - 1),
              next |-> d + 1]
        ELSE NoHeader

\* The leftmost match from p on.  A start that fails makes every start up to
\* its "/" or newline fail the same way, so the search resumes after it.
RECURSIVE MissionHeaderFrom(_, _)
MissionHeaderFrom(s, p) ==
    IF p > Len(s) THEN NoHeader
    ELSE LET m == MissionHeaderAt(s, p)
         IN  IF m.at # 0 THEN m
             ELSE MissionHeaderFrom(s, SkipUntil(s, p, {"/", "\n"}) + 1)

\* re.split(mission_pattern, text) from position p: the text before each
\* match, then the three groups of the match.
RECURSIVE SplitMissionsFrom(_, _)
SplitMissionsFrom(s, p) ==
    LET m == MissionHeaderFrom(s, p)
    IN  IF m.at = 0 THEN <<SubSeq(s, p, Len(s))>>
        ELSE <<SubSeq(s, p, m.at - 1), m.planet, m.mission, m.type>>
                 \o SplitMissionsFrom(s, m.next)

SplitMissions(s) == SplitMissionsFrom(s, 1)

RotationWord == <<"R","o","t","a","t","i","o","n"," ">>
RotationLetters == {"A", "B", "C"}

\* The leftmost match of Rotation ([ABC]) from p on, or 0.
RECURSIVE RotationFrom(_, _)
RotationFrom(s, p) ==
    IF p + Len(RotationWord) > Len(s) THEN 0
    ELSE IF /\ s[p] = "R"
            /\ LiteralAt(s, p, RotationWord)
            /\ s[p + Len(RotationWord)] \in RotationLetters
         THEN p
         ELSE RotationFrom(s, p + 1)

\* re.split(r'Rotation ([ABC])', content) from position p.
RECURSIVE SplitRotationsFrom(_, _)
SplitRotationsFrom(s, p) ==
    LET r == RotationFrom(s, p)
    IN  IF r = 0 THEN <<SubSeq(s, p, Len(s))>>
        ELSE <<SubSeq(s, p, r - 1), <<s[r + Len(RotationWord)]>>>>
                 \o SplitRotationsFrom(s, r + Len(RotationWord) + 1)

SplitRotations(s) == SplitRotationsFrom(s, 1)

\* float(token) for a token of [0-9.]+ : digits with at most one point and
\* at least one digit, else ValueError.
ParseFloat(token) ==
    LET points == {i \in 1..Len(token) : token[i] = "."}
        point == IF points = {} THEN Len(token) + 1
                 ELSE CHOOSE i \in points : TRUE
    IN  IF Cardinality(points) > 1 \/ Len(token) - Cardinality(points) = 0
        THEN [ok |-> FALSE, whole |-> <<>>, frac |-> <<>>]
        ELSE [ok |-> TRUE,
              whole |-> SubSeq(token, 1, point - 1),
              frac |-> SubSeq(token, point + 1, Len(token))]

RelicRarities ==
    <<<<"R","a","r","e">>,
      <<"U","n","c","o","m","m","o","n">>,
      <<"C","o","m","m","o","n">>,
      <<"V","e","r","y"," ","C","o","m","m","o","n">>>>

ModRarities ==
    <<<<"V","e","r","y"," ","C","o","m","m","o","n">>,
      <<"C","o","m","m","o","n">>,
      <<"U","n","c","o","m","m","o","n">>,
      <<"R","a","r","e">>,
      <<"U","l","t","r","a"," ","R","a","r","e">>,
      <<"L","e","g","e","n","d","a","r","y">>>>

NoReward == [at |-> 0, rarity |-> <<>>, token |-> <<>>, next |-> 0]

\* (alternative|...)\s*\(([0-9.]+)%\) at position q of a match begun at p.
\* No alternative is a prefix of another, so at most one can match at q.
RarityAndPercentAt(s, p, q, rarities, ignorecase) ==
    LET same(a, b) == IF ignorecase THEN Lower(a) = Lower(b) ELSE a = b
        fits == {k \in 1..Len(rarities) :
                    /\ q + Len(rarities[k]) - 1 <= Len(s)
                    /\ same(SubSeq(s, q, q + Len(rarities[k]) - 1),
                            rarities[k])}
    IN  IF fits = {} THEN NoReward
        ELSE LET k == CHOOSE k \in fits : TRUE
                 a == SkipWhile(s, q + Len(rarities[k]), Whitespace)
                 b == SkipWhile(s, a + 1, Digits \cup {"."})
             IN  IF /\ a <= Len(s)
                    /\ s[a] = "("
                    /\ b > a + 1
                    /\ LiteralAt(s, b, <<"%", ")">>)
                 THEN [at |-> p,
                       rarity |-> SubSeq(s, q, q + Len(rarities[k]) - 1),
                       token |-> SubSeq(s, a + 1, b - 1),
                       next |-> b + 2]
                 ELSE NoReward

RelicFullName(relic_name) == relic_name \o <<" ">> \o RelicWord

\* {re.escape(relic_full_name)}(Rare|Uncommon|Common|Very Common)
\* \s*\(([0-9.]+)%\) at position p.
RelicRewardAt(s, p, relic_name) ==
    LET full == RelicFullName(relic_name)
    IN  IF s[p] = full[1] /\ LiteralAt(s, p, full)
        THEN RarityAndPercentAt(s, p, p + Len(full), RelicRarities, FALSE)
        ELSE NoReward

\* {re.escape(mod_name)}\s*\|\s*(Very Common|...|Legendary)\s*\(([0-9.]+)%\)
\* with re.IGNORECASE, at position p.
ModRewardAt(s, p, mod_name) ==
    LET a == SkipWhile(s, p + Len(mod_name), Whitespace)
        b == SkipWhile(s, a + 1, Whitespace)
    IN  IF /\ p + Len(mod_name) - 1 <= Len(s)
           /\ Lower(SubSeq(s, p, p + Len(mod_name) - 1)) = Lower(mod_name)
           /\ a <= Len(s)
           /\ s[a] = "|"
        THEN RarityAndPercentAt(s, p, b, ModRarities, TRUE)
        ELSE NoReward

RewardAt(s, p, fn, name) ==
    IF fn = "relic" THEN RelicRewardAt(s, p, name)
    ELSE ModRewardAt(s, p, name)

\* The leftmost match from p on: re.search, and each step of re.finditer.
RECURSIVE RewardFrom(_, _, _, _)
RewardFrom(s, p, fn, name) ==
    IF p > Len(s) THEN NoReward
    ELSE LET m == RewardAt(s, p, fn, name)
         IN  IF m.at # 0 THEN m ELSE RewardFrom(s, p + 1, fn, name)

\* What a call has produced so far: the exception that ended it, if any,
\* and farm_locations.
Returned(list) == [raised |-> "none", list |-> list]
Raised(exception) == [raised |-> exception, list |-> <<>>]

\* A computation followed by the rest of the loop.
AndThen(first, rest) ==
    IF first.raised # "none" THEN first
    ELSE IF rest.raised # "none" THEN rest
         ELSE Returned(first.list \o rest.list)

FarmLocation(planet, mission, type, rotation, rarity, drop_rate) ==
    [mission |-> mission, planet |-> planet, type |-> type,
     rotation |-> rotation, rarity |-> rarity, drop_rate |-> drop_rate]

RewardLabel == <<"R","e","w","a","r","d">>

\* for match in re.finditer(pattern, part): one location per match, the
\* call ended by float() on the first token that is no number.
RECURSIVE RelicMatches(_, _, _, _, _)
RelicMatches(part, p, relic_name, header, current_rotation) ==
    LET m == RewardFrom(part, p, "relic", relic_name)
        rate == ParseFloat(m.token)
    IN  IF m.at = 0 THEN Returned(<<>>)
        ELSE IF ~rate.ok THEN Raised("ValueError")
        ELSE AndThen(
                 Returned(<<FarmLocation(
                     header.planet, header.mission, header.type,
                     IF current_rotation # <<>> THEN current_rotation
                     ELSE RewardLabel,
                     m.rarity, rate)>>),
                 RelicMatches(part, m.next, relic_name, header,
                              current_rotation))

\* for j, part in enumerate(rotations): odd pieces set current_rotation,
\* even pieces are searched when they contain relic_full_name.
RECURSIVE RelicRotations(_, _, _, _, _)
RelicRotations(rotations, j, relic_name, header, current_rotation) ==
    IF j >= Len(rotations) THEN Returned(<<>>)
    ELSE IF j % 2 = 1
         THEN RelicRotations(rotations, j + 1, relic_name, header,
                             StripWs(At(rotations, j)))
         ELSE AndThen(
                  IF Contains(RelicFullName(relic_name), At(rotations, j))
                  THEN RelicMatches(At(rotations, j), 1, relic_name, header,
                                    current_rotation)
                  ELSE Returned(<<>>),
                  RelicRotations(rotations, j + 1, relic_name, header,
                                 current_rotation))

RelicPseudoPlanets ==
    {<<"R","e","l","i","c","s">>, <<"E","v","e","n","t">>, <<"B","a","r","o">>}

ModPseudoPlanets == RelicPseudoPlanets \cup {<<"R","o","t","a","t","i","o","n">>}

\* for i in range(1, len(missions), 4), i counted as Python counts.  A
\* list index past the end raises IndexError.
RECURSIVE RelicMissions(_, _, _)
RelicMissions(ms, i, relic_name) ==
    IF i >= Len(ms) \/ i + 3 >= Len(ms) THEN Returned(<<>>)
    ELSE LET header == [planet |-> StripWs(At(ms, i)),
                        mission |-> StripWs(At(ms, i + 1)),
                        type |-> StripWs(At(ms, i + 2))]
         IN  AndThen(
                 IF header.planet \in RelicPseudoPlanets THEN Returned(<<>>)
                 ELSE RelicRotations(SplitRotations(At(ms, i + 3)), 0,
                                     relic_name, header, <<>>),
                 RelicMissions(ms, i + 4, relic_name))

find_relic_farm_locations(s, relic_name) ==
    RelicMissions(SplitMissions(s), 1, relic_name)

RotLabel(letter) == <<"R","o","t","."," ">> \o letter

\* for rot_idx in range(1, len(rotations), 2): the piece after each
\* rotation letter is searched with re.search, which stops at the first
\* match.
RECURSIVE ModRotations(_, _, _, _)
ModRotations(rotations, rot_idx, mod_name, header) ==
    IF rot_idx >= Len(rotations) \/ rot_idx + 1 > Len(rotations)
    THEN Returned(<<>>)
    ELSE IF rot_idx + 1 = Len(rotations) THEN Raised("IndexError")
    ELSE LET rotation_letter == At(rotations, rot_idx)
             m == RewardFrom(At(rotations, rot_idx + 1), 1, "mod", mod_name)
             rate == ParseFloat(m.token)
         IN  AndThen(
                 IF m.at = 0 THEN Returned(<<>>)
                 ELSE IF ~rate.ok THEN Raised("ValueError")
                 ELSE Returned(<<FarmLocation(
                          header.planet, header.mission, header.type,
                          RotLabel(rotation_letter), m.rarity, rate)>>),
                 ModRotations(rotations, rot_idx + 2, mod_name, header))

RECURSIVE ModMissions(_, _, _)
ModMissions(ms, i, mod_name) ==
    IF i >= Len(ms) \/ i + 3 > Len(ms) THEN Returned(<<>>)
    ELSE IF i + 3 = Len(ms) THEN Raised("IndexError")
    ELSE LET header == [planet |-> StripWs(At(ms, i)),
                        mission |-> StripWs(At(ms, i + 1)),
                        type |-> StripWs(At(ms, i + 2))]
         IN  AndThen(
                 IF header.planet \in ModPseudoPlanets THEN Returned(<<>>)
                 ELSE ModRotations(SplitRotations(At(ms, i + 3)), 1,
                                   mod_name, header),
                 ModMissions(ms, i + 4, mod_name))

find_mod_in_missions(s, mod_name) ==
    ModMissions(SplitMissions(s), 1, mod_name)

\* The drop-table text is laid out as mission headers, rotation headers and
\* reward rows: [piece, a, b, c].
HeaderPiece(planet, mission, type) ==
    [piece |-> "header", a |-> planet, b |-> mission, c |-> type]
RotationPiece(letter) ==
    [piece |-> "rotation", a |-> letter, b |-> <<>>, c |-> <<>>]
RewardPiece(name, rarity, token) ==
    [piece |-> "reward", a |-> name, b |-> rarity, c |-> token]

\* The characters of a piece.  A relic row is written "<relic> Relic<rarity>
\* (<n>%)", a mod row "<mod> | <rarity> (<n>%)"
\* (src/warframe_drop_analyzer.py:120, 157, 344).
Render(piece, fn) ==
    CASE piece.piece = "header" ->
             piece.a \o <<"/">> \o piece.b \o <<" ", "(">> \o piece.c
                 \o <<")">>
      [] piece.piece = "rotation" -> RotationWord \o piece.a
      [] piece.piece = "reward" ->
             piece.a
                 \o (IF fn = "relic" THEN <<" ">> \o RelicWord
                     ELSE <<" ", "|", " ">>)
                 \o piece.b \o <<" ", "(">> \o piece.c \o <<"%", ")">>

\* The pieces in order, each followed by the separator: a newline when the
\* rows are on lines of their own, nothing when the text is glued.
RECURSIVE TextOf(_, _, _)
TextOf(d, fn, separator) ==
    IF d = <<>> THEN <<>>
    ELSE Render(Head(d), fn) \o separator \o TextOf(Tail(d), fn, separator)

Separators == {<<"\n">>, <<>>}

Serration == <<"S","e","r","r","a","t","i","o","n">>
WantedName(fn) == IF fn = "relic" THEN LithA1 ELSE Serration
TypeSpyHeader(planet) == HeaderPiece(planet, Pavlov, TypeSpy)
RareRow(fn, token) == RewardPiece(WantedName(fn), <<"R","a","r","e">>, token)

InRange == <<"1","4",".","2","9">>
OutOfRange == <<"1","5","0",".","0","0">>
TwoPoints == <<"1",".","2",".","3">>
OnlyPoint == <<".">>

MaxPieces == 4

\* Well-formed pieces: two headers for one node, two rotations, a row.
CorePieces(fn) ==
    {TypeSpyHeader(Lua), HeaderPiece(Lua, Pavlov, TypeSurvival),
     RotationPiece(<<"A">>), RotationPiece(<<"B">>), RareRow(fn, InRange)}

\* Section headers of the document, and rows whose percentage is off.
OddPieces(fn) ==
    {TypeSpyHeader(p) : p \in ModPseudoPlanets}
        \cup {RareRow(fn, t) : t \in {OutOfRange, TwoPoints, OnlyPoint}}

\* Up to MaxPieces well-formed pieces, at most one of them replaced by an
\* odd one.
Layouts(fn) ==
    LET core == SeqsUpTo(CorePieces(fn), MaxPieces)
    IN  core \cup UNION {{[d EXCEPT ![i] = x] :
                             i \in 1..Len(d), x \in OddPieces(fn)} :
                         d \in core}

ExtractInit ==
    /\ \E fn \in {"relic", "mod"} :
           \E d \in Layouts(fn), separator \in Separators :
               /\ layout = d
               /\ text = TextOf(d, fn, separator)
               /\ wanted = [fn |-> fn, name |-> WantedName(fn)]
    /\ locations = Returned(<<>>)
    /\ epc = "input"
    /\ analyzer = NoAnalyzer
    /\ constructed = 0
    /\ lastGood = 0
    /\ queries = [q \in 1..MaxQueries |-> IdleQuery]
    /\ reload_reply = "none"
    /\ relic_data = [reward_mentions |-> 0, drop_mentions |-> 0]
    /\ vaulted = FALSE
    /\ vpc = "idle"
    /\ filters = <<>>
    /\ filter_list = <<>>
    /\ missions = <<>>
    /\ filtered = <<>>
    /\ refiltered = <<>>
    /\ fpc = "idle"
    /\ all_farms = <<>>
    /\ aggregated = <<>>
    /\ apc = "idle"
    /\ comp_relics = <<>>
    /\ relic_farms = <<>>
    /\ cfilters = <<>>
    /\ all_farms_list = <<>>
    /\ detailed = <<>>
    /\ common = <<>>
    /\ presented = <<>>
    /\ cpc = "idle"
    /\ corpus = <<>>
    /\ targets = <<>>
    /\ remembered = <<>>
    /\ between = 0
    /\ content = <<>>
    /\ msg_parts = <<>>
    /\ sent = <<>>
    /\ spc = "idle"
    /\ lines = <<>>
    /\ item_name = <<>>
    /\ found_relics = <<>>
    /\ rpc = "idle"
    /\ interactions = <<>>

FindRelicFarmLocationsCall ==
    /\ epc = "input"
    /\ wanted.fn = "relic"
    /\ locations' = find_relic_farm_locations(text, wanted.name)
    /\ epc' = "returned"
    /\ UNCHANGED <<layout, text, wanted>>

FindModInMissionsCall ==
    /\ epc = "input"
    /\ wanted.fn = "mod"
    /\ locations' = find_mod_in_missions(text, wanted.name)
    /\ epc' = "returned"
    /\ UNCHANGED <<layout, text, wanted>>

ExtractNext ==
    /\ \/ FindRelicFarmLocationsCall
       \/ FindModInMissionsCall
    /\ UNCHANGED
           <<botVars, vaultedVars, filterVars, aggregateVars, correlateVars,
             relicVars, queryVars, sendVars, followVars>>

SpecExtract == ExtractInit /\ [][ExtractNext]_vars

\* What the layout says about a reward row k: the mission header it stands
\* under, and the rotation header it stands under inside that block (0
\* when there is none).
HeaderBefore(d, k) ==
    LET hs == {h \in 1..(k - 1) : d[h].piece = "header"}
    IN  IF hs = {} THEN 0 ELSE CHOOSE h \in hs : \A g \in hs : g <= h

RotationBefore(d, k) ==
    LET rs == {r \in (HeaderBefore(d, k) + 1)..(k - 1) :
                  d[r].piece = "rotation"}
    IN  IF rs = {} THEN 0 ELSE CHOOSE r \in rs : \A g \in rs : g <= r

\* The rows that qualify: under a mission header, their percentage a number.
RewardRows(d) ==
    {k \in 1..Len(d) :
        /\ d[k].piece = "reward"
        /\ HeaderBefore(d, k) # 0
        /\ ParseFloat(d[k].c).ok}

\* The rotation letter a location names: "A" for "A" and for "Rot. A".
LetterOf(rotation) ==
    IF Len(rotation) > 1 /\ rotation # RewardLabel
    THEN <<rotation[Len(rotation)]>>
    ELSE rotation

\* <<planet, mission, type, rotation>> of a row in the layout and of a
\* returned location.
RowKey(d, k) ==
    <<d[HeaderBefore(d, k)].a, d[HeaderBefore(d, k)].b,
      d[HeaderBefore(d, k)].c,
      IF RotationBefore(d, k) = 0 THEN RewardLabel
      ELSE d[RotationBefore(d, k)].a>>

LocationKey(l) == <<l.planet, l.mission, l.type, LetterOf(l.rotation)>>

Completed == epc = "returned" /\ locations.raised = "none"

\* Every header and every row of the text stands on a line of its own.
RowsOnOwnLines == text = TextOf(layout, wanted.fn, <<"\n">>)

\* C21: whatever the text holds, malformed percentages included, both
\* functions return a list and never raise.
C21_ExtractorsNeverRaise ==
    epc = "returned" => locations.raised = "none"

\* C22: every returned location carries the planet, mission name and
\* mission type of the nearest mission header before its reward row, and
\* the letter of the nearest rotation header before the row inside that
\* block ("Reward" when the block has none before it).
C22_LocationsCarryNearestHeaders ==
    Completed =>
        \A i \in 1..Len(locations.list) :
            \E k \in RewardRows(layout) :
                LocationKey(locations.list[i]) = RowKey(layout, k)

\* C23: for both functions, a row standing in a mission's content before
\* the first rotation header, or in a mission without one, gives a location
\* labelled "Reward".  Stated for texts whose rows stand on their own
\* lines, where the mission headers are cut as the layout has them.
C23_RowsBeforeRotationsAreReward ==
    (Completed /\ RowsOnOwnLines) =>
        \A k \in RewardRows(layout) :
            (/\ RotationBefore(layout, k) = 0
             /\ layout[HeaderBefore(layout, k)].a \notin ModPseudoPlanets)
                => \E i \in 1..Len(locations.list) :
                       /\ locations.list[i].rotation = RewardLabel
                       /\ LocationKey(locations.list[i]) = RowKey(layout, k)

\* C24: for both functions, a rotation holds as many locations as the text
\* lists rows for it: k rows give k locations.  Stated for texts whose rows
\* stand on their own lines.
C24_OneLocationPerRow ==
    (Completed /\ RowsOnOwnLines) =>
        \A k \in RewardRows(layout) :
            (/\ RotationBefore(layout, k) # 0
             /\ layout[HeaderBefore(layout, k)].a \notin ModPseudoPlanets)
                => Cardinality({i \in 1..Len(locations.list) :
                       LocationKey(locations.list[i]) = RowKey(layout, k)})
                   = Cardinality({j \in RewardRows(layout) :
                       RowKey(layout, j) = RowKey(layout, k)})

\* C25: no location names the planet "Relics", "Event" or "Baro", and the
\* blocks of every other planet are searched: a row under a rotation of
\* such a block is returned.  Stated for texts whose rows stand on their
\* own lines.
C25_OnlyThreePlanetsDiscarded ==
    (Completed /\ RowsOnOwnLines) =>
        /\ \A i \in 1..Len(locations.list) :
               locations.list[i].planet \notin RelicPseudoPlanets
        /\ \A k \in RewardRows(layout) :
               (/\ RotationBefore(layout, k) # 0
                /\ layout[HeaderBefore(layout, k)].a
                       \notin RelicPseudoPlanets)
                   => \E i \in 1..Len(locations.list) :
                          LocationKey(locations.list[i]) = RowKey(layout, k)

\* drop_rate <= 100, read from the digits float() was given.
WithinHundred(rate) ==
    LET significant == SkipWhile(rate.whole, 1, {"0"})
        width == Len(rate.whole) - significant + 1
    IN  \/ width <= 2
        \/ /\ width = 3
           /\ SubSeq(rate.whole, significant, Len(rate.whole))
                  = <<"1", "0", "0">>
           /\ \A i \in 1..Len(rate.frac) : rate.frac[i] = "0"

\* C26: every returned location has a probability within [0, 100].
C26_ProbabilityWithinRange ==
    Completed =>
        \A i \in 1..Len(locations.list) :
            WithinHundred(locations.list[i].drop_rate)

\* C28: locations that fall into one group, having the same mission,
\* planet and rotation, also have the same mission type.
C28_GroupSharesMissionType ==
    Completed =>
        \A i, j \in 1..Len(locations.list) :
            (/\ locations.list[i].mission = locations.list[j].mission
             /\ locations.list[i].planet = locations.list[j].planet
             /\ locations.list[i].rotation = locations.list[j].rotation)
                => locations.list[i].type = locations.list[j].type

-----------------------------------------------------------------------------
(* The calls of find_relic_farm_locations within one query on a complete    *)
(* item (src/discord_bot.py:376-389, src/warframe_drop_analyzer.py:551-583).*)

\* The relic names passed to find_relic_farm_locations, in call order: for
\* each component in turn, each of its active relics.
RECURSIVE ScannedRelics(_)
ScannedRelics(crs) ==
    IF crs = <<>> THEN <<>>
    ELSE Head(crs).relics \o ScannedRelics(Tail(crs))

\* C27: within one query find_relic_farm_locations is called exactly once
\* for each active relic name, also for a relic that is active for several
\* components of the equipment.
C27_EachActiveRelicScannedOnce ==
    cpc \in {"bot", "cli"} =>
        \A r \in RelicSet : Occurrences(ScannedRelics(comp_relics), r) = 1

-----------------------------------------------------------------------------
(* The answers of prime_command, mod_command and reload_command            *)
(* (src/discord_bot.py:71-113, 121-172, 175-195) and the sends of          *)
(* send_long_message and send_summary_images (:539-567, :742-760).  Each   *)
(* handler is cut where it awaits a send; a send succeeds.                 *)

MaxInteractions == 1

Commands == {"prime_single", "prime_complete", "mod", "reload"}

\* deferred: interaction.response.defer was awaited; followups: the
\* interaction.followup.send calls so far; more: parts 2.. of a long
\* message still to send on the channel; images: send_summary_images is
\* still to run.
IdleInteraction ==
    [command |-> "none", pc |-> "idle", deferred |-> FALSE, followups |-> 0,
     outcome |-> "none", more |-> 0, images |-> FALSE]

\* A slash command arrives.  reload_command answers a user without the
\* administrator permission with interaction.response.send_message and
\* returns; every other invocation awaits interaction.response.defer.
InteractionInvoke(i, command, administrator) ==
    /\ interactions[i].pc = "idle"
    /\ interactions' = [interactions EXCEPT ![i] =
           IF command = "reload" /\ ~administrator
           THEN [@ EXCEPT !.command = command, !.pc = "done",
                          !.outcome = "Refused"]
           ELSE [@ EXCEPT !.command = command, !.pc = "deferred",
                          !.deferred = TRUE]]
    /\ UNCHANGED <<analyzer, constructed, lastGood>>

\* send_long_message(result) up to its first await: the content itself, or
\* the first part, goes to interaction.followup.send.
AfterFirstSend(cur, out, long, images) ==
    [cur EXCEPT !.outcome = out,
                !.followups = cur.followups + 1,
                !.more = IF long THEN 1 ELSE 0,
                !.images = images,
                !.pc = IF long THEN "parts"
                       ELSE IF images THEN "images" ELSE "done"]

\* A single interaction.followup.send, after which the handler returns.
AfterOnlySend(cur, out) ==
    [cur EXCEPT !.outcome = out, !.followups = cur.followups + 1,
                !.pc = "done"]

\* A variant of mod_command that returns without a word when the filters
\* exclude every mission.
ModCommandSilentWhenFiltered(i, m, raises, long) ==
    /\ interactions[i].pc = "deferred"
    /\ interactions[i].command = "mod"
    /\ LET cur == interactions[i]
           out == IF ~NotReady(analyzer) /\ raises THEN "Error"
                  ELSE ModOutcome(analyzer, m)
       IN  interactions' = [interactions EXCEPT ![i] =
               IF out = "Found" THEN AfterFirstSend(cur, out, long, FALSE)
               ELSE IF out = "AllFiltered"
                    THEN [cur EXCEPT !.outcome = out, !.pc = "done"]
                    ELSE AfterOnlySend(cur, out)]
    /\ UNCHANGED <<analyzer, constructed, lastGood>>

\* mod_command after defer: not ready, not found and all filtered each
\* send one follow-up and return; a result goes to send_long_message; an
\* exception raised by the analysis is answered by the except clause.
ModCommand(i, m, raises, long) ==
    /\ interactions[i].pc = "deferred"
    /\ interactions[i].command = "mod"
    /\ LET cur == interactions[i]
           out == IF ~NotReady(analyzer) /\ raises THEN "Error"
                  ELSE ModOutcome(analyzer, m)
       IN  interactions' = [interactions EXCEPT ![i] =
               IF out = "Found" THEN AfterFirstSend(cur, out, long, FALSE)
               ELSE AfterOnlySend(cur, out)]
    /\ UNCHANGED <<analyzer, constructed, lastGood>>

\* prime_command after defer: not ready and the except clause send one
\* follow-up; every text an analysis returns goes to send_long_message,
\* and the images follow when component_data is not empty.
PrimeCommand(i, m, raises, long) ==
    /\ interactions[i].pc = "deferred"
    /\ interactions[i].command \in {"prime_single", "prime_complete"}
    /\ LET cur == interactions[i]
           out == IF ~NotReady(analyzer) /\ raises THEN "Error"
                  ELSE Outcome(cur.command, analyzer, m)
       IN  interactions' = [interactions EXCEPT ![i] =
               IF out \in {"NotReady", "Error"} THEN AfterOnlySend(cur, out)
               ELSE AfterFirstSend(cur, out, long,
                        cur.command = "prime_complete"
                            /\ out \in {"Found", "EmptyTop"})]
    /\ UNCHANGED <<analyzer, constructed, lastGood>>

\* reload_command after defer: a new analyzer is constructed and fetched
\* and the result reported; an exception is answered by the except clause.
ReloadRun(i, ok, raises) ==
    /\ interactions[i].pc = "deferred"
    /\ interactions[i].command = "reload"
    /\ analyzer' = IF raises THEN analyzer
                   ELSE NewAnalyzer(MaxLoads + i, ok)
    /\ interactions' = [interactions EXCEPT ![i] =
           AfterOnlySend(@, IF raises THEN "Error"
                            ELSE IF ok THEN "Reloaded" ELSE "Failed")]
    /\ UNCHANGED <<constructed, lastGood>>

\* send_long_message after a part was sent and the sleep is over: the next
\* part goes to interaction.channel.send.
SendNextPart(i) ==
    /\ interactions[i].pc = "parts"
    /\ interactions' = [interactions EXCEPT ![i] =
           [@ EXCEPT !.more = @ - 1,
                     !.pc = IF interactions[i].more > 1 THEN "parts"
                            ELSE IF interactions[i].images THEN "images"
                            ELSE "done"]]
    /\ UNCHANGED <<analyzer, constructed, lastGood>>

\* send_summary_images: the images go to interaction.followup.send, or
\* nothing is sent when generate_summary_image raises.
SendImages(i, raises) ==
    /\ interactions[i].pc = "images"
    /\ interactions' = [interactions EXCEPT ![i] =
           [@ EXCEPT !.followups = IF raises THEN @ ELSE @ + 1,
                     !.images = FALSE,
                     !.pc = "done"]]
    /\ UNCHANGED <<analyzer, constructed, lastGood>>

\* What the event loop resumes: a handler whose awaited call has returned.
Resume(i) ==
    \/ \E m \in Matches, raises \in BOOLEAN, long \in BOOLEAN :
           \/ ModCommand(i, m, raises, long)
           \/ PrimeCommand(i, m, raises, long)
    \/ \E ok \in BOOLEAN, raises \in BOOLEAN : ReloadRun(i, ok, raises)
    \/ SendNextPart(i)
    \/ \E raises \in BOOLEAN : SendImages(i, raises)

FollowUpInit ==
    /\ analyzer = NoAnalyzer
    /\ constructed = 0
    /\ lastGood = 0
    /\ interactions = [i \in 1..MaxInteractions |-> IdleInteraction]
    /\ queries = [q \in 1..MaxQueries |-> IdleQuery]
    /\ reload_reply = "none"
    /\ relic_data = [reward_mentions |-> 0, drop_mentions |-> 0]
    /\ vaulted = FALSE
    /\ vpc = "idle"
    /\ filters = <<>>
    /\ filter_list = <<>>
    /\ missions = <<>>
    /\ filtered = <<>>
    /\ refiltered = <<>>
    /\ fpc = "idle"
    /\ all_farms = <<>>
    /\ aggregated = <<>>
    /\ apc = "idle"
    /\ comp_relics = <<>>
    /\ relic_farms = <<>>
    /\ cfilters = <<>>
    /\ all_farms_list = <<>>
    /\ detailed = <<>>
    /\ common = <<>>
    /\ presented = <<>>
    /\ cpc = "idle"
    /\ corpus = <<>>
    /\ targets = <<>>
    /\ remembered = <<>>
    /\ between = 0
    /\ content = <<>>
    /\ msg_parts = <<>>
    /\ sent = <<>>
    /\ spc = "idle"
    /\ lines = <<>>
    /\ item_name = <<>>
    /\ found_relics = <<>>
    /\ rpc = "idle"
    /\ layout = <<>>
    /\ text = <<>>
    /\ wanted = <<>>
    /\ locations = <<>>
    /\ epc = "idle"

\* A step of the handler of interaction i and of nothing else.
HandlerStep(i) ==
    /\ Resume(i)
    /\ UNCHANGED
           <<queries, reload_reply, vaultedVars, filterVars, aggregateVars,
             correlateVars, relicVars, queryVars, extractVars, sendVars>>

FollowUpNext ==
    \/ /\ \E ok \in BOOLEAN : OnReady(ok)
       /\ UNCHANGED
              <<interactions, vaultedVars, filterVars, aggregateVars,
                correlateVars, relicVars, queryVars, extractVars, sendVars>>
    \/ /\ \E i \in 1..MaxInteractions, command \in Commands,
              administrator \in BOOLEAN :
              InteractionInvoke(i, command, administrator)
       /\ UNCHANGED
              <<queries, reload_reply, vaultedVars, filterVars, aggregateVars,
                correlateVars, relicVars, queryVars, extractVars, sendVars>>
    \/ \E i \in 1..MaxInteractions : HandlerStep(i)

SpecFollowUp == FollowUpInit /\ [][FollowUpNext]_vars

\* The event loop resumes every handler whose awaited call has returned,
\* and by assumption every send returns.
SpecFollowUpFair ==
    SpecFollowUp /\ \A i \in 1..MaxInteractions : WF_vars(HandlerStep(i))

\* C29: every /prime, /mod and /reload invocation that has deferred its
\* interaction is eventually sent at least one follow-up, whichever path
\* the handler takes.
C29_DeferredIsFollowedUp ==
    \A i \in 1..MaxInteractions :
        interactions[i].deferred ~> interactions[i].followups > 0

C29_Witness ==
    \E i \in 1..MaxInteractions :
        /\ interactions[i].deferred
        /\ interactions[i].command = "mod"
        /\ interactions[i].outcome = "AllFiltered"
        /\ interactions[i].pc = "done"
        /\ interactions[i].followups = 1

-----------------------------------------------------------------------------
(* send_long_message (src/discord_bot.py:539-567).  The content is held as  *)
(* its lines, content.split('\n'), each line as its length; a part is the  *)
(* lines it holds, in order, and whether each is followed by a newline.     *)

MaxLength == 1900
MaxLines == 3

LineLengths ==
    {0, 1, MaxLength \div 2, MaxLength - 1, MaxLength, MaxLength + 1}

RECURSIVE SumOf(_)
SumOf(ns) == IF ns = <<>> THEN 0 ELSE Head(ns) + SumOf(Tail(ns))

\* len(content): the lines and the newlines between them.
ContentLength(ls) == SumOf(ls) + Len(ls) - 1

\* A part of the message: the lines (as indices into the content) it is
\* made of, each followed by a newline when `newlines` is set, otherwise
\* joined by newlines.
Part(ks, newlines) == [lines |-> ks, newlines |-> newlines]

PartLength(ls, part) ==
    SumOf([j \in 1..Len(part.lines) |-> ls[part.lines[j]]])
        + (IF part.newlines THEN Len(part.lines)
           ELSE IF part.lines = <<>> THEN 0 ELSE Len(part.lines) - 1)

\* for line in content.split('\n'): from line k on, with the parts closed
\* so far and the lines of `current`; then the last `current`, unless it
\* is the empty string.
RECURSIVE SplitLoop(_, _, _, _)
SplitLoop(ls, k, closed, current) ==
    IF k > Len(ls)
    THEN IF current # <<>> THEN Append(closed, Part(current, TRUE))
         ELSE closed
    ELSE IF PartLength(ls, Part(current, TRUE)) + ls[k] + 1 > MaxLength
         THEN SplitLoop(ls, k + 1, Append(closed, Part(current, TRUE)), <<k>>)
         ELSE SplitLoop(ls, k + 1, closed, Append(current, k))

SendInit ==
    /\ content \in SeqsUpTo(LineLengths, MaxLines) \ {<<>>}
    /\ msg_parts = <<>>
    /\ sent = <<>>
    /\ spc = "input"
    /\ analyzer = NoAnalyzer
    /\ constructed = 0
    /\ lastGood = 0
    /\ queries = [q \in 1..MaxQueries |-> IdleQuery]
    /\ reload_reply = "none"
    /\ relic_data = [reward_mentions |-> 0, drop_mentions |-> 0]
    /\ vaulted = FALSE
    /\ vpc = "idle"
    /\ filters = <<>>
    /\ filter_list = <<>>
    /\ missions = <<>>
    /\ filtered = <<>>
    /\ refiltered = <<>>
    /\ fpc = "idle"
    /\ all_farms = <<>>
    /\ aggregated = <<>>
    /\ apc = "idle"
    /\ comp_relics = <<>>
    /\ relic_farms = <<>>
    /\ cfilters = <<>>
    /\ all_farms_list = <<>>
    /\ detailed = <<>>
    /\ common = <<>>
    /\ presented = <<>>
    /\ cpc = "idle"
    /\ corpus = <<>>
    /\ targets = <<>>
    /\ remembered = <<>>
    /\ between = 0
    /\ lines = <<>>
    /\ item_name = <<>>
    /\ found_relics = <<>>
    /\ rpc = "idle"
    /\ layout = <<>>
    /\ text = <<>>
    /\ wanted = <<>>
    /\ locations = <<>>
    /\ epc = "idle"
    /\ interactions = <<>>

\* send_long_message up to its first await: a content within max_length
\* goes out whole, a longer one is split and its first part goes out, both
\* through interaction.followup.send.
SendLongMessage ==
    /\ spc = "input"
    /\ IF ContentLength(content) <= MaxLength
       THEN /\ msg_parts' = <<>>
            /\ sent' = <<[via |-> "followup",
                          part |-> Part([k \in 1..Len(content) |-> k],
                                        FALSE)]>>
            /\ spc' = "done"
       ELSE LET split == SplitLoop(content, 1, <<>>, <<>>)
            IN  /\ msg_parts' = split
                /\ sent' = <<[via |-> "followup", part |-> split[1]]>>
                /\ spc' = "sending"
    /\ UNCHANGED content

\* After asyncio.sleep: the next part goes to interaction.channel.send.
ChannelSend ==
    /\ spc = "sending"
    /\ Len(sent) < Len(msg_parts)
    /\ sent' = Append(sent, [via |-> "channel",
                             part |-> msg_parts[Len(sent) + 1]])
    /\ UNCHANGED <<content, msg_parts, spc>>

\* After the sleep that follows the last part the coroutine returns.
SendLongMessageReturn ==
    /\ spc = "sending"
    /\ Len(sent) = Len(msg_parts)
    /\ spc' = "done"
    /\ UNCHANGED <<content, msg_parts, sent>>

SendNext ==
    /\ \/ SendLongMessage
       \/ ChannelSend
       \/ SendLongMessageReturn
    /\ UNCHANGED
           <<botVars, vaultedVars, filterVars, aggregateVars, correlateVars,
             relicVars, queryVars, extractVars, followVars>>

SpecSend == SendInit /\ [][SendNext]_vars

\* The lines of all the parts sent, in the order sent.
RECURSIVE LinesSent(_)
LinesSent(msgs) ==
    IF msgs = <<>> THEN <<>>
    ELSE Head(msgs).part.lines \o LinesSent(Tail(msgs))

\* C30: whatever the content, the parts sent are each non-empty and at
\* most 1900 characters long, their lines are the lines of the content in
\* the original order, none dropped or repeated, and the first part goes
\* out as the interaction's follow-up, the later ones on the channel.
C30_PartsBoundedCompleteAndRouted ==
    spc = "done" =>
        /\ \A j \in 1..Len(sent) :
               /\ PartLength(content, sent[j].part) >= 1
               /\ PartLength(content, sent[j].part) <= MaxLength
               /\ sent[j].via = (IF j = 1 THEN "followup" ELSE "channel")
        /\ LinesSent(sent) = [k \in 1..Len(content) |-> k]

====
